---- MODULE Spec2Model ----
(***************************************************************************)
(* A model of the OpenSDS control plane sample:                            *)
(*   - the northbound handlers of pkg/api/volume.go, which write a         *)
(*     provisional record, dispatch controller.Brain.X on a goroutine and  *)
(*     wait on a one-slot error channel (specification SpecApi);           *)
(*   - the Fibre-Channel connector (connectVolume, volPathDiscovery)       *)
(*     (specification SpecFc);                                             *)
(*   - the LVM driver of contrib/drivers/lvm/lvm.go (specification SpecLvm)*)
(* The three parts share no state; each specification holds the variables  *)
(* of the other two parts constant.                                        *)
(***************************************************************************)
EXTENDS Integers, Sequences, FiniteSets, TLC

VARIABLES
    handler,    \* per request: the handler invocation's position and locals
    errchan,    \* per request: the channel made by make(chan error, 1)
    brain,      \* per request: the goroutine started by go controller.Brain.X
    db,         \* the persistence layer: resource id -> status
    fc,         \* the connector call in progress and its host environment
    lvm         \* the LVM backend and the last driver call's outcome

apiVars == <<handler, errchan, brain, db>>
vars == <<handler, errchan, brain, db, fc, lvm>>

\* The empty string, where a string is a tuple of its parts.
EmptyString == <<>>

\* The connector before any connectVolume call: no device path on the host.
FcIdle ==
    [pc |-> "idle", volPaths |-> <<>>, exists |-> {}, i |-> 0, j |-> 1, log |-> <<>>,
     devicePath |-> EmptyString, deviceName |-> EmptyString, ret |-> "none"]

\* A nil *model.VolumeSpec / *model.VolumeSnapshotSpec.
NilSpec == [nil |-> TRUE]

\* LVMConfig as Setup leaves it: EnableChapAuth, and Pool, the map from the
\* name of a declared pool to its PoolProperties.
PoolNames == {"vg0", "vg1"}

PoolProperties(name) ==
    [storageType |-> "block", availabilityZone |-> IF name = "vg0" THEN "" ELSE "az1"]

LVMConfigs ==
    {[enableChapAuth |-> chap, pool |-> [name \in declared |-> PoolProperties(name)]] :
        chap \in BOOLEAN, declared \in SUBSET PoolNames}

\* The configuration with the one pool vg0 and no CHAP authentication.
DefaultConf ==
    [enableChapAuth |-> FALSE, pool |-> [name \in {"vg0"} |-> PoolProperties(name)]]

\* The LVM backend before any driver call: no logical volume (lvs), no
\* snapshot of a volume (origin: pairs <<snapshot path, origin path>>), no
\* deactivated snapshot (inactive), no export; and no driver call made yet.
\* conf is the driver's configuration; poolIds notes the pairs <<volume-group
\* UUID, pool id>> that ListPools has returned so far.
LvmIdle ==
    [lvs |-> {}, origin |-> {}, inactive |-> {}, exports |-> {},
     op |-> "none", opt |-> NilSpec, cmds |-> <<>>, ret |-> [val |-> NilSpec, err |-> "nil"],
     conf |-> DefaultConf, poolIds |-> {}]

(***************************************************************************)
(* Part 1: pkg/api/volume.go                                               *)
(***************************************************************************)

NumRequests == 2

Requests == 1..NumRequests

Volumes == {"v1"}
Attachments == {"a1"}
Snapshots == {"s1"}
Resources == Volumes \cup Attachments \cup Snapshots

\* HTTP status codes set on the response (0: none set yet).
StatusAccepted == 202
ErrorBadRequest == 400
ErrorInternalServer == 500

\* Each handler is the sequence of its steps in the order of its code.
\* "defer" registers close(errchan), which runs when the handler returns.
VolumePortal_CreateVolume ==
    <<"decode", "dbentry", "marshal", "accept", "mkchan", "defer", "go", "recv", "ret">>

VolumePortal_ExtendVolume ==
    <<"decode", "dbentry", "marshal", "accept", "mkchan", "defer", "go", "recv", "ret">>

VolumePortal_DeleteVolume ==
    <<"get", "dbentry", "accept", "mkchan", "go", "defer", "recv", "ret">>

VolumeAttachmentPortal_CreateVolumeAttachment ==
    <<"decode", "dbentry", "marshal", "accept", "mkchan", "defer", "go", "recv", "ret">>

VolumeAttachmentPortal_DeleteVolumeAttachment ==
    <<"get", "accept", "mkchan", "go", "defer", "recv", "ret">>

VolumeSnapshotPortal_CreateVolumeSnapshot ==
    <<"decode", "dbentry", "marshal", "accept", "mkchan", "defer", "go", "recv", "ret">>

VolumeSnapshotPortal_DeleteVolumeSnapshot ==
    <<"get", "dbentry", "mkchan", "defer", "go", "recv", "accept", "ret">>

Handlers ==
    {"CreateVolume", "ExtendVolume", "DeleteVolume", "CreateVolumeAttachment",
     "DeleteVolumeAttachment", "CreateVolumeSnapshot", "DeleteVolumeSnapshot"}

Steps(kind) ==
    CASE kind = "CreateVolume" -> VolumePortal_CreateVolume
      [] kind = "ExtendVolume" -> VolumePortal_ExtendVolume
      [] kind = "DeleteVolume" -> VolumePortal_DeleteVolume
      [] kind = "CreateVolumeAttachment" -> VolumeAttachmentPortal_CreateVolumeAttachment
      [] kind = "DeleteVolumeAttachment" -> VolumeAttachmentPortal_DeleteVolumeAttachment
      [] kind = "CreateVolumeSnapshot" -> VolumeSnapshotPortal_CreateVolumeSnapshot
      [] kind = "DeleteVolumeSnapshot" -> VolumeSnapshotPortal_DeleteVolumeSnapshot

\* The resources a handler can be asked to act on (":volumeId", ":attachmentId",
\* ":snapshotId", or the id of the record a create handler makes).
TargetsOf(kind) ==
    IF kind \in {"CreateVolume", "ExtendVolume", "DeleteVolume"} THEN Volumes
    ELSE IF kind \in {"CreateVolumeAttachment", "DeleteVolumeAttachment"} THEN Attachments
    ELSE Snapshots

\* The status the handler sets when json.Marshal(result) fails.
MarshalErrorStatus(kind) ==
    IF kind = "CreateVolume" THEN ErrorBadRequest ELSE ErrorInternalServer

\* Whether the handler writes a body next to StatusAccepted.
AcceptedHasBody(kind) ==
    kind \in {"CreateVolume", "ExtendVolume", "CreateVolumeAttachment", "CreateVolumeSnapshot"}

Transitional == {"creating", "extending", "deleting"}

IdleHandler ==
    [pc |-> "idle", kind |-> "none", target |-> "none", status |-> 0, body |-> "none",
     got |-> "none", wrote |-> FALSE, deferred |-> FALSE, rcvd |-> "none"]

NoChan == [state |-> "nil", buf |-> <<>>, sends |-> 0, recvs |-> 0]

NoBrain == [pc |-> "none", err |-> "nil"]

StepAfter(kind, pc) ==
    LET s == Steps(kind)
        i == CHOOSE k \in 1..Len(s) : s[k] = pc
    IN s[i + 1]

At(r, step) == handler[r].pc = step

Advance(h) == [h EXCEPT !.pc = StepAfter(h.kind, h.pc)]

\* An error return that answers StatusAccepted whatever the code is.
ErrorReturnAccepted(h, code) ==
    [h EXCEPT !.pc = "ret", !.status = StatusAccepted, !.body = "error"]

\* SetStatus(code); Body(error text); return: the handler goes to its return
\* with nothing deferred.
ErrorReturn(h, code) == [h EXCEPT !.pc = "ret", !.status = code, !.body = "error"]

BrainRunning(r) == brain[r].pc \in {"run", "persist", "post"}

\* A request arrives: beego calls the handler on a goroutine of its own.
\* policy.Authorize may turn it away before anything else happens.
Start(r) ==
    /\ handler[r].pc = "idle"
    /\ ~BrainRunning(r)
    /\ \E kind \in Handlers, target \in DOMAIN db, authorized \in BOOLEAN :
          /\ target \in TargetsOf(kind)
          /\ handler' = [handler EXCEPT ![r] =
                 [IdleHandler EXCEPT !.kind = kind, !.target = target,
                     !.pc = IF authorized THEN Steps(kind)[1] ELSE "ret"]]
    /\ errchan' = [errchan EXCEPT ![r] = NoChan]
    /\ brain' = [brain EXCEPT ![r] = NoBrain]
    /\ UNCHANGED <<db, fc, lvm>>

\* json.NewDecoder(v.Ctx.Request.Body).Decode(&x)
Decode(r) ==
    /\ At(r, "decode")
    /\ \E ok \in BOOLEAN :
          handler' = [handler EXCEPT ![r] =
              IF ok THEN Advance(@) ELSE ErrorReturn(@, ErrorBadRequest)]
    /\ UNCHANGED <<errchan, brain, db, fc, lvm>>

\* db.C.GetVolume / GetVolumeAttachment / GetVolumeSnapshot: the handler keeps
\* the record it read.
GetResource(r) ==
    /\ At(r, "get")
    /\ handler' = [handler EXCEPT ![r] =
           IF db[@.target] = "absent"
           THEN ErrorReturn(@, ErrorBadRequest)
           ELSE [Advance(@) EXCEPT !.got = db[handler[r].target]]]
    /\ UNCHANGED <<errchan, brain, db, fc, lvm>>

\* The status a <X>DBEntry call must find for it to write the transitional
\* status, and the transitional status it writes.
DBEntryAccepts(kind, status) ==
    CASE kind \in {"CreateVolume", "CreateVolumeAttachment", "CreateVolumeSnapshot"} ->
            status = "absent"
      [] kind = "ExtendVolume" -> status = "available"
      [] kind \in {"DeleteVolume", "DeleteVolumeSnapshot"} ->
            status \in {"available", "error", "errorDeleting"}
      [] OTHER -> FALSE

DBEntryWrites(kind) ==
    CASE kind \in {"CreateVolume", "CreateVolumeAttachment", "CreateVolumeSnapshot"} ->
            "creating"
      [] kind = "ExtendVolume" -> "extending"
      [] OTHER -> "deleting"

\* CreateVolumeDBEntry, ExtendVolumeDBEntry(id), DeleteVolumeDBEntry(volume), ...
\* The delete entries are handed the record the handler read earlier; the
\* others look the record up themselves. The write itself may fail.
DBEntry(r) ==
    /\ At(r, "dbentry")
    /\ LET h == handler[r]
           seen == IF h.kind \in {"DeleteVolume", "DeleteVolumeSnapshot"}
                   THEN h.got ELSE db[h.target]
       IN \E writeOk \in BOOLEAN :
            IF DBEntryAccepts(h.kind, seen) /\ writeOk
            THEN /\ db' = [db EXCEPT ![h.target] = DBEntryWrites(h.kind)]
                 /\ handler' = [handler EXCEPT ![r] = [Advance(h) EXCEPT !.wrote = TRUE]]
            ELSE /\ db' = db
                 /\ handler' = [handler EXCEPT ![r] = ErrorReturn(h, ErrorBadRequest)]
    /\ UNCHANGED <<errchan, brain, fc, lvm>>

\* body, err := json.Marshal(result)
Marshal(r) ==
    /\ At(r, "marshal")
    /\ \E ok \in BOOLEAN :
          handler' = [handler EXCEPT ![r] =
              IF ok THEN Advance(@) ELSE ErrorReturn(@, MarshalErrorStatus(@.kind))]
    /\ UNCHANGED <<errchan, brain, db, fc, lvm>>

\* v.Ctx.Output.SetStatus(StatusAccepted) (and Body(body) where there is one)
SetAccepted(r) ==
    /\ At(r, "accept")
    /\ handler' = [handler EXCEPT ![r] =
           [Advance(@) EXCEPT !.status = StatusAccepted,
               !.body = IF AcceptedHasBody(handler[r].kind) THEN "result" ELSE handler[r].body]]
    /\ UNCHANGED <<errchan, brain, db, fc, lvm>>

\* var errchan = make(chan error, 1)
MakeChan(r) ==
    /\ At(r, "mkchan")
    /\ handler' = [handler EXCEPT ![r] = Advance(@)]
    /\ errchan' = [errchan EXCEPT ![r] = [NoChan EXCEPT !.state = "open"]]
    /\ UNCHANGED <<brain, db, fc, lvm>>

\* A plain close(errchan) where the code says defer close(errchan).
CloseAtOnce(r) ==
    /\ At(r, "defer")
    /\ handler' = [handler EXCEPT ![r] = Advance(@)]
    /\ errchan' = [errchan EXCEPT ![r].state = "closed"]
    /\ UNCHANGED <<brain, db, fc, lvm>>

\* defer close(errchan)
DeferClose(r) ==
    /\ At(r, "defer")
    /\ handler' = [handler EXCEPT ![r] = [Advance(@) EXCEPT !.deferred = TRUE]]
    /\ UNCHANGED <<errchan, brain, db, fc, lvm>>

\* go controller.Brain.X(ctx, resource, errchan): the record read or made
\* earlier is handed to the goroutine.
Go(r) ==
    /\ At(r, "go")
    /\ handler' = [handler EXCEPT ![r] = [Advance(@) EXCEPT !.got = "none"]]
    /\ brain' = [brain EXCEPT ![r] = [pc |-> "run", err |-> "nil"]]
    /\ UNCHANGED <<errchan, db, fc, lvm>>

\* Whether the "if err := <-errchan; err != nil" block of the handler ends
\* with a return (the two snapshot handlers only log there and fall through).
ReturnsOnError(kind) == kind \notin {"CreateVolumeSnapshot", "DeleteVolumeSnapshot"}

\* A handler that answers the received error: SetStatus(ErrorInternalServer),
\* Body(error text) and return.
AfterReceiveAnswersError(h, e) ==
    IF e # "nil"
    THEN [h EXCEPT !.pc = "ret", !.rcvd = e, !.status = ErrorInternalServer, !.body = "error"]
    ELSE [Advance(h) EXCEPT !.rcvd = e]

\* if err := <-errchan; err != nil { log.Error(reason); return }: a non-nil
\* value is logged, and the handler returns there or goes on to what follows.
AfterReceive(h, e) ==
    IF e # "nil" /\ ReturnsOnError(h.kind)
    THEN [h EXCEPT !.pc = "ret", !.rcvd = e]
    ELSE [Advance(h) EXCEPT !.rcvd = e]

\* A receive that does not wait: with nothing buffered it goes on with the
\* zero value (a select with a default case).
ReceiveOrSkip(r) ==
    /\ At(r, "recv")
    /\ \/ /\ Len(errchan[r].buf) > 0
          /\ handler' = [handler EXCEPT ![r] = AfterReceive(@, Head(errchan[r].buf))]
          /\ errchan' = [errchan EXCEPT ![r].buf = Tail(@), ![r].recvs = @ + 1]
       \/ /\ Len(errchan[r].buf) = 0
          /\ handler' = [handler EXCEPT ![r] = AfterReceive(@, "nil")]
          /\ errchan' = [errchan EXCEPT ![r].recvs = @ + 1]
    /\ UNCHANGED <<brain, db, fc, lvm>>

\* err := <-errchan: takes the buffered value; on a closed and empty channel
\* it yields the zero value; otherwise it blocks.
Receive(r) ==
    /\ At(r, "recv")
    /\ \/ /\ Len(errchan[r].buf) > 0
          /\ handler' = [handler EXCEPT ![r] = AfterReceive(@, Head(errchan[r].buf))]
          /\ errchan' = [errchan EXCEPT ![r].buf = Tail(@), ![r].recvs = @ + 1]
       \/ /\ Len(errchan[r].buf) = 0
          /\ errchan[r].state = "closed"
          /\ handler' = [handler EXCEPT ![r] = AfterReceive(@, "nil")]
          /\ errchan' = [errchan EXCEPT ![r].recvs = @ + 1]
    /\ UNCHANGED <<brain, db, fc, lvm>>

\* return: the deferred close(errchan) runs, and the invocation is over (its
\* locals are gone; the channel and the goroutine it started are what is left).
Return(r) ==
    /\ At(r, "ret")
    /\ handler' = [handler EXCEPT ![r] = IdleHandler]
    /\ errchan' = [errchan EXCEPT ![r].state = IF handler[r].deferred THEN "closed" ELSE @]
    /\ UNCHANGED <<brain, db, fc, lvm>>

\* controller.Brain.X: runs the driver method to completion ...
BrainRun(r) ==
    /\ brain[r].pc = "run"
    /\ \E e \in {"nil", "err"} : brain' = [brain EXCEPT ![r] = [pc |-> "persist", err |-> e]]
    /\ UNCHANGED <<handler, errchan, db, fc, lvm>>

\* The terminal status of an operation with outcome e.
TerminalStatus(kind, e) ==
    CASE kind \in {"CreateVolume", "CreateVolumeAttachment", "CreateVolumeSnapshot"} ->
            IF e = "nil" THEN "available" ELSE "error"
      [] kind = "ExtendVolume" -> IF e = "nil" THEN "available" ELSE "error"
      [] OTHER -> IF e = "nil" THEN "absent" ELSE "errorDeleting"

\* ... writes the terminal status to the persistence layer ...
BrainPersist(r) ==
    /\ brain[r].pc = "persist"
    /\ db' = [db EXCEPT ![handler[r].target] = TerminalStatus(handler[r].kind, brain[r].err)]
    /\ brain' = [brain EXCEPT ![r].pc = "post"]
    /\ UNCHANGED <<handler, errchan, fc, lvm>>

\* ... and posts the error (or nil) on the channel: errchan <- err. A send on a
\* closed channel panics; a send on a full channel blocks.
BrainPost(r) ==
    /\ brain[r].pc = "post"
    /\ \/ /\ errchan[r].state = "closed"
          /\ brain' = [brain EXCEPT ![r] = [pc |-> "panicked", err |-> "nil"]]
          /\ errchan' = errchan
       \/ /\ errchan[r].state = "open"
          /\ Len(errchan[r].buf) < 1
          /\ brain' = [brain EXCEPT ![r] = [pc |-> "done", err |-> "nil"]]
          /\ errchan' = [errchan EXCEPT ![r].buf = Append(@, brain[r].err), ![r].sends = @ + 1]
    /\ UNCHANGED <<handler, db, fc, lvm>>

InitApi ==
    /\ handler = [r \in Requests |-> IdleHandler]
    /\ errchan = [r \in Requests |-> NoChan]
    /\ brain = [r \in Requests |-> NoBrain]
    /\ \E x \in Resources : db = [y \in {x} |-> "absent"]
    /\ fc = FcIdle
    /\ lvm = LvmIdle

NextApi ==
    \E r \in Requests :
        \/ Start(r)
        \/ Decode(r)
        \/ GetResource(r)
        \/ DBEntry(r)
        \/ Marshal(r)
        \/ SetAccepted(r)
        \/ MakeChan(r)
        \/ DeferClose(r)
        \/ Go(r)
        \/ Receive(r)
        \/ Return(r)
        \/ BrainRun(r)
        \/ BrainPersist(r)
        \/ BrainPost(r)

SpecApi == InitApi /\ [][NextApi]_vars

\* The next step of the handler of request r once it has been called, and the
\* next step of the background execution it started.
HandlerStep(r) ==
    \/ Decode(r) \/ GetResource(r) \/ DBEntry(r) \/ Marshal(r) \/ SetAccepted(r)
    \/ MakeChan(r) \/ DeferClose(r) \/ Go(r) \/ Receive(r) \/ Return(r)

BackgroundStep(r) == BrainRun(r) \/ BrainPersist(r) \/ BrainPost(r)

\* The Go scheduler runs every goroutine that can run: a handler that is not
\* blocked takes its next step, and so does the background execution (the
\* driver call and the write of the terminal status return).
SpecApiFair ==
    /\ InitApi
    /\ [][NextApi]_vars
    /\ \A r \in Requests : WF_vars(HandlerStep(r)) /\ WF_vars(BackgroundStep(r))

(***************************************************************************)
(* Claims about the handlers                                               *)
(***************************************************************************)

Dispatched(r) == brain[r].pc # "none"

\* C2: in every handler that dispatches a background operation, the write of
\* the transitional status has completed successfully before the background
\* execution is started.
C2_TransitionalWriteBeforeDispatch ==
    \A r \in Requests :
        (handler[r].pc # "idle" /\ Dispatched(r)) => handler[r].wrote

\* C3: the result channel is written exactly once and received from exactly
\* once; it is closed only after the write and the receive; the brain never
\* sends on a closed channel, and a handler waiting on the channel always has
\* a value there or a background execution that has yet to post one.
C3_ChannelWrittenOnceReceivedOnceThenClosed ==
    \A r \in Requests :
        /\ errchan[r].sends <= 1
        /\ errchan[r].recvs <= errchan[r].sends
        /\ errchan[r].state = "closed" => (errchan[r].sends = 1 /\ errchan[r].recvs = 1)
        /\ brain[r].pc # "panicked"
        /\ At(r, "recv") => (BrainRunning(r) \/ Len(errchan[r].buf) = 1)
        /\ (At(r, "ret") /\ errchan[r].state # "nil") =>
               (errchan[r].recvs = 1 /\ handler[r].deferred)

\* C3's case: a handler has returned, its channel written once, read once and
\* then closed.
C3_Witness ==
    \E r \in Requests :
        /\ handler[r].pc = "idle"
        /\ errchan[r].state = "closed"
        /\ errchan[r].sends = 1
        /\ errchan[r].recvs = 1
        /\ brain[r].pc = "done"

\* C4: a long-running handler does not wait for the backend operation: the
\* background execution posts its outcome only after the handler has returned.
C4_HandlerReturnsBeforeOutcomePosted ==
    [][\A r \in Requests :
          (brain[r].pc = "post" /\ brain'[r].pc = "done") => handler[r].pc = "idle"]_vars

\* C5: in every long-running handler the Accepted status is on the response
\* before a value is received from the result channel.
C5_AcceptedBeforeReceive ==
    \A r \in Requests :
        (handler[r].pc # "idle" /\ errchan[r].recvs > 0) => handler[r].status = StatusAccepted

\* C6: at no time are two background executions in flight for the same
\* resource.
C6_OneBackgroundExecutionPerResource ==
    \A r1, r2 \in Requests :
        (r1 # r2 /\ BrainRunning(r1) /\ BrainRunning(r2)) =>
            handler[r1].target # handler[r2].target

\* C7: a handler that has written the transitional status has started a
\* background execution by the time it returns.
C7_TransitionalWriteImpliesDispatch ==
    \A r \in Requests :
        (At(r, "ret") /\ handler[r].wrote) => Dispatched(r)

\* C20: when the body cannot be decoded or the provisional database write
\* returns an error, the handler sets an error status, not Accepted, and has
\* dispatched no background execution (so no backend call is made); from
\* there it only returns.
C20_ErrorBeforeDispatch ==
    [][\A r \in Requests :
          /\ (handler[r].pc \in {"decode", "dbentry"} /\ handler'[r].pc = "ret") =>
                /\ handler'[r].status = ErrorBadRequest
                /\ handler'[r].body = "error"
                /\ ~handler'[r].wrote
                /\ brain'[r] = NoBrain
                /\ errchan'[r] = NoChan
          /\ (handler[r].pc = "ret" /\ handler[r].body = "error") =>
                /\ handler'[r].pc \in {"ret", "idle"}
                /\ handler'[r].pc = "ret" => handler'[r].status = handler[r].status
                /\ brain'[r] = brain[r]]_vars

\* C20's case: DeleteVolume read the volume and its DeleteVolumeDBEntry
\* returned an error: the handler is at its return with ErrorBadRequest and
\* nothing dispatched.
C20_Witness ==
    \E r \in Requests :
        /\ handler[r].kind = "DeleteVolume"
        /\ handler[r].pc = "ret"
        /\ handler[r].got # "none"
        /\ handler[r].status = ErrorBadRequest
        /\ brain[r] = NoBrain

\* C21: the value received from the result channel is only logged: in every
\* long-running handler the receive leaves the status and the body as they
\* were, and at the handler's return the status is StatusAccepted and the body
\* is the one the handler's kind fixes, whether nil or an error was received.
C21_ReceivedValueOnlyLogged ==
    [][\A r \in Requests :
          /\ (handler[r].pc = "recv" /\ handler'[r].pc # "recv") =>
                /\ handler'[r].status = handler[r].status
                /\ handler'[r].body = handler[r].body
          /\ (handler[r].pc = "ret" /\ handler[r].rcvd # "none" /\ handler'[r].pc = "idle") =>
                /\ handler[r].status = StatusAccepted
                /\ handler[r].body =
                       IF AcceptedHasBody(handler[r].kind) THEN "result" ELSE "none"]_vars

\* C21's case: DeleteVolumeSnapshot received an error from the channel and is
\* at its return.
C21_Witness ==
    \E r \in Requests :
        /\ handler[r].kind = "DeleteVolumeSnapshot"
        /\ handler[r].pc = "ret"
        /\ handler[r].rcvd = "err"

(***************************************************************************)
(* Part 2: the Fibre-Channel connector (src/pkg/api/base.go, package fc)   *)
(***************************************************************************)

\* var tries = 3
tries == 3

\* The most candidate paths getVolumePaths yields in the model.
MaxPaths == 2

\* The k-th host device path "/dev/disk/by-path/pci-...-fc-...-lun-..." that
\* getHostDevices builds, and the device its symbolic link points to.
HostDevice(k) == <<"by-path", k>>

AllHostDevices == {HostDevice(k) : k \in 1..MaxPaths}

\* helper.getContentfromSymboliclink(path)
getContentfromSymboliclink(path) == <<"sd", path[2]>>

\* helper.pathExists(path), on the host as it is when the call is made
pathExists(f, path) == path \in f.exists

CheckEvent(f, path) ==
    [ev |-> "check", pass |-> f.i, path |-> path, found |-> pathExists(f, path)]

\* A found path returned with the device name of the first candidate instead
\* of its own.
FoundFirstCandidateName(f, path) ==
    [f EXCEPT !.pc = "wwn", !.devicePath = path,
              !.deviceName = getContentfromSymboliclink(f.volPaths[1]),
              !.log = Append(@, CheckEvent(f, path))]

\* A match that is noted while the loop goes on to the next candidate.
FoundKeepsLooking(f, path) ==
    [f EXCEPT !.j = @ + 1, !.devicePath = path,
              !.deviceName = getContentfromSymboliclink(path),
              !.log = Append(@, CheckEvent(f, path))]

\* deviceName := f.helper.getContentfromSymboliclink(path); return path, deviceName
Found(f, path) ==
    [f EXCEPT !.pc = "wwn", !.devicePath = path,
              !.deviceName = getContentfromSymboliclink(path),
              !.log = Append(@, CheckEvent(f, path))]

\* f.helper.rescanHosts(tgtWWN, hbas), then on to the next candidate
NotFound(f, path) ==
    [f EXCEPT !.j = @ + 1,
              !.log = @ \o <<CheckEvent(f, path), [ev |-> "rescan", pass |-> f.i]>>]

\* connectVolume up to its call of volPathDiscovery: getFChbasInfo may fail,
\* and getVolumePaths may yield no candidate.
ConnectVolume ==
    /\ fc.pc \in {"idle", "done", "disconnected"}
    /\ \E hbasOk \in BOOLEAN, n \in 0..MaxPaths :
          fc' = IF ~hbasOk
                THEN [FcIdle EXCEPT !.pc = "done", !.exists = fc.exists,
                                    !.ret = [err |-> "getFChbas failed", path |-> "nil"]]
                ELSE IF n = 0
                THEN [FcIdle EXCEPT !.pc = "done", !.exists = fc.exists,
                                    !.ret = [err |-> "No FC devices found.", path |-> "nil"]]
                ELSE [FcIdle EXCEPT !.pc = "discover", !.exists = fc.exists,
                                    !.volPaths = [k \in 1..n |-> HostDevice(k)]]
    /\ UNCHANGED apiVars
    /\ UNCHANGED lvm

\* volPathDiscovery, one turn of the inner loop: for _, path := range volPaths
PathCheck ==
    /\ fc.pc = "discover"
    /\ fc.i < tries
    /\ fc.j <= Len(fc.volPaths)
    /\ LET path == fc.volPaths[fc.j]
       IN fc' = IF pathExists(fc, path) THEN Found(fc, path) ELSE NotFound(fc, path)
    /\ UNCHANGED apiVars
    /\ UNCHANGED lvm

\* volPathDiscovery, the end of a pass: time.Sleep(2 * time.Second); i++; and
\* return "", "" once i reaches tries.
Sleep ==
    /\ fc.pc = "discover"
    /\ fc.i < tries
    /\ fc.j > Len(fc.volPaths)
    /\ fc' = [fc EXCEPT !.i = @ + 1, !.j = 1,
                        !.log = Append(@, [ev |-> "sleep", pass |-> fc.i]),
                        !.pc = IF fc.i + 1 < tries THEN "discover" ELSE "wwn"]
    /\ UNCHANGED apiVars
    /\ UNCHANGED lvm

\* connectVolume after volPathDiscovery: deviceWWN, err := getSCSIWWN(devicePath);
\* the outcome of the scsi_id command is the host's.
GetSCSIWWN ==
    /\ fc.pc = "wwn"
    /\ \E ok \in BOOLEAN :
          fc' = [fc EXCEPT !.pc = "done",
                           !.ret = IF ok THEN [err |-> "nil", path |-> fc.devicePath]
                                   ELSE [err |-> "getSCSIWWN failed", path |-> "nil"]]
    /\ UNCHANGED apiVars
    /\ UNCHANGED lvm

\* getVolumePathsForDetach: the candidate paths that exist, in candidate order
getVolumePathsForDetach(f, n) ==
    SelectSeq([k \in 1..n |-> HostDevice(k)], LAMBDA path : pathExists(f, path))

\* The existence checks getVolumePathsForDetach makes, one per candidate.
DetachChecks(f, n) ==
    [k \in 1..n |-> [ev |-> "candidate", path |-> HostDevice(k),
                     found |-> pathExists(f, HostDevice(k))]]

\* disconnectVolume, the loop over volPaths: realPath is the content of the
\* symbolic link and deviceInfo what getDeviceInfo gives for it; its error is
\* dropped, and a failed lookup leaves a device without a name.
DevicesOf(volPaths, infoOk) ==
    [k \in 1..Len(volPaths) |->
        [path |-> volPaths[k],
         device |-> IF volPaths[k] \in infoOk
                    THEN getContentfromSymboliclink(volPaths[k])
                    ELSE EmptyString]]

\* "/sys/block/<device>/device/delete"
SysfsDelete(device) == <<"sys", "block", device, "delete">>

\* A removal that asks for the removal of a device without flushing it first.
removeDevicesUnflushed(devices, sysfs, k, flushFail, removeFail) ==
    [log |-> [m \in 1..Len(devices) |->
                 [ev |-> "remove", device |-> devices[m].device, ok |-> TRUE]],
     err |-> "nil"]

\* A removal that notes the first error and goes on with the devices after it.
RECURSIVE removeDevicesKeepsGoing(_, _, _, _, _)
removeDevicesKeepsGoing(devices, sysfs, k, flushFail, removeFail) ==
    IF k > Len(devices) THEN [log |-> <<>>, err |-> "nil"]
    ELSE LET device == devices[k].device
             rest == removeDevicesKeepsGoing(devices, sysfs, k + 1, flushFail, removeFail)
             flush(ok) == [ev |-> "flush", device |-> device, ok |-> ok]
             remove(ok) == [ev |-> "remove", device |-> device, ok |-> ok]
         IN IF SysfsDelete(device) \notin sysfs THEN rest
            ELSE IF k = flushFail
            THEN [log |-> <<flush(FALSE)>> \o rest.log, err |-> "flush failed"]
            ELSE IF k = removeFail
            THEN [log |-> <<flush(TRUE), remove(FALSE)>> \o rest.log, err |-> "remove failed"]
            ELSE [log |-> <<flush(TRUE), remove(TRUE)>> \o rest.log, err |-> rest.err]

\* removeDevices: for each device whose sysfs delete entry exists, flushDeviceIO
\* and then removeSCSIDevice, returning at the first error (the flush of the
\* flushFail-th device or the removal of the removeFail-th; 0 for none).
RECURSIVE removeDevices(_, _, _, _, _)
removeDevices(devices, sysfs, k, flushFail, removeFail) ==
    IF k > Len(devices) THEN [log |-> <<>>, err |-> "nil"]
    ELSE LET device == devices[k].device
             rest == removeDevices(devices, sysfs, k + 1, flushFail, removeFail)
             flush(ok) == [ev |-> "flush", device |-> device, ok |-> ok]
             remove(ok) == [ev |-> "remove", device |-> device, ok |-> ok]
         IN IF SysfsDelete(device) \notin sysfs THEN rest
            ELSE IF k = flushFail THEN [log |-> <<flush(FALSE)>>, err |-> "flush failed"]
            ELSE IF k = removeFail
            THEN [log |-> <<flush(TRUE), remove(FALSE)>>, err |-> "remove failed"]
            ELSE [log |-> <<flush(TRUE), remove(TRUE)>> \o rest.log, err |-> rest.err]

\* disconnectVolume, the whole call: getFChbasInfo may fail; the existing
\* candidate paths are resolved to devices and the devices removed.
DisconnectVolume ==
    /\ fc.pc \in {"idle", "done", "disconnected"}
    /\ \E hbasOk \in BOOLEAN, n \in 0..MaxPaths :
          LET volPaths == getVolumePathsForDetach(fc, n)
              found == {volPaths[k] : k \in 1..Len(volPaths)}
          IN IF ~hbasOk
             THEN /\ n = 0
                  /\ fc' = [FcIdle EXCEPT !.pc = "disconnected", !.exists = fc.exists,
                                          !.ret = [err |-> "getFChbas failed", path |-> "nil"]]
             ELSE \E infoOk \in SUBSET found,
                     flushFail \in 0..Len(volPaths), removeFail \in 0..Len(volPaths) :
                     \E sysfs \in SUBSET {SysfsDelete(getContentfromSymboliclink(p)) :
                                             p \in infoOk} :
                  LET devices == DevicesOf(volPaths, infoOk)
                      res == removeDevices(devices, sysfs, 1, flushFail, removeFail)
                      resolved == [k \in 1..Len(devices) |->
                                      [ev |-> "resolve", path |-> devices[k].path,
                                       device |-> devices[k].device,
                                       sysfs |-> SysfsDelete(devices[k].device) \in sysfs]]
                  IN fc' = [FcIdle EXCEPT !.pc = "disconnected", !.exists = fc.exists,
                                          !.volPaths = volPaths,
                                          !.log = DetachChecks(fc, n) \o resolved \o res.log,
                                          !.ret = [err |-> res.err, path |-> "nil"]]
    /\ UNCHANGED apiVars
    /\ UNCHANGED lvm

\* The host: an exported LUN shows up under /dev/disk/by-path, or goes away.
PathAppears ==
    /\ \E path \in AllHostDevices \ fc.exists : fc' = [fc EXCEPT !.exists = @ \cup {path}]
    /\ UNCHANGED apiVars
    /\ UNCHANGED lvm

PathVanishes ==
    /\ \E path \in fc.exists : fc' = [fc EXCEPT !.exists = @ \ {path}]
    /\ UNCHANGED apiVars
    /\ UNCHANGED lvm

InitFc ==
    /\ handler = [r \in Requests |-> IdleHandler]
    /\ errchan = [r \in Requests |-> NoChan]
    /\ brain = [r \in Requests |-> NoBrain]
    /\ db = [x \in Resources |-> "absent"]
    /\ fc = FcIdle
    /\ lvm = LvmIdle

NextFc ==
    \/ ConnectVolume
    \/ PathCheck
    \/ Sleep
    \/ GetSCSIWWN
    \/ PathAppears
    \/ PathVanishes
    \/ DisconnectVolume

SpecFc == InitFc /\ [][NextFc]_vars

\* The goroutine that runs volPathDiscovery is not held up: pathExists,
\* rescanHosts and time.Sleep return, so each turn of its loops is taken.
SpecFcFair == InitFc /\ [][NextFc]_vars /\ WF_vars(PathCheck) /\ WF_vars(Sleep)

(***************************************************************************)
(* Claims about the connector                                              *)
(***************************************************************************)

\* volPathDiscovery has returned (connectVolume is at or past getSCSIWWN).
DiscoveryReturned == fc.pc \in {"wwn", "done"} /\ Len(fc.log) > 0

Checks == {k \in 1..Len(fc.log) : fc.log[k].ev = "check"}

Hits == {k \in Checks : fc.log[k].found}

Rescans == {k \in 1..Len(fc.log) : fc.log[k].ev = "rescan"}

\* C8: connectVolume returns an error whenever volPathDiscovery used up its
\* attempts and returned empty strings; it never returns success with an
\* empty path.
C8_ConnectFailsWhenDiscoveryExhausted ==
    (fc.pc = "done" /\ Len(fc.log) > 0 /\ fc.devicePath = EmptyString) =>
        fc.ret.err # "nil"

\* C9: with tries = 3, if a candidate path exists at the moment it is checked,
\* volPathDiscovery returns the first such path with the device name read from
\* its symbolic link, within 3 passes and with no check after it; a match in
\* the second pass comes after at least one rescan; with no match at all the
\* result is two empty strings.
C9_DiscoveryReturnsFirstExistingPath ==
    DiscoveryReturned =>
        IF Hits # {}
        THEN LET k0 == CHOOSE k \in Hits : \A m \in Hits : k <= m
                 hit == fc.log[k0]
             IN /\ fc.devicePath = hit.path
                /\ fc.deviceName = getContentfromSymboliclink(hit.path)
                /\ k0 = Len(fc.log)
                /\ hit.pass < tries
                /\ \A m \in Checks :
                      (m < k0 /\ fc.log[m].pass = hit.pass) =>
                          \E a, b \in 1..Len(fc.volPaths) :
                              /\ a < b
                              /\ fc.volPaths[a] = fc.log[m].path
                              /\ fc.volPaths[b] = hit.path
                /\ hit.pass = 1 => Cardinality({k \in Rescans : k < k0}) >= 1
        ELSE /\ fc.devicePath = EmptyString
             /\ fc.deviceName = EmptyString
             /\ Cardinality(Checks) = tries * Len(fc.volPaths)

\* C9's case: the path is found in the second pass, not the first candidate,
\* after at least one rescan.
C9_Witness ==
    /\ DiscoveryReturned
    /\ fc.devicePath = HostDevice(2)
    /\ fc.deviceName = getContentfromSymboliclink(HostDevice(2))
    /\ \E k \in Hits : fc.log[k].pass = 1
    /\ Rescans # {}

\* C10: a rescan is triggered only in a pass in which no candidate path
\* exists: a pass that finds a match triggers no rescan.
C10_NoRescanInPassThatFindsMatch ==
    \A k \in Rescans : \A m \in Hits : fc.log[m].pass # fc.log[k].pass

\* The events of the last disconnectVolume call of the given kind.
Detach(ev) ==
    IF fc.pc = "disconnected" THEN {k \in 1..Len(fc.log) : fc.log[k].ev = ev} ELSE {}

\* C17: disconnectVolume resolves exactly the candidate paths that exist; a
\* device gets a removal request only right after its own successful flush;
\* a device whose sysfs delete entry does not exist gets neither flush nor
\* removal, and the call fails only when a flush or a removal failed (or the
\* HBAs could not be read).
C17_FlushBeforeRemoveSkipMissing ==
    fc.pc = "disconnected" =>
        /\ {fc.log[k].path : k \in Detach("resolve")} =
              {fc.log[k].path : k \in {c \in Detach("candidate") : fc.log[c].found}}
        /\ \A k \in Detach("flush") \cup Detach("remove") :
              \E r \in Detach("resolve") :
                  r < k /\ fc.log[r].device = fc.log[k].device /\ fc.log[r].sysfs
        /\ \A k \in Detach("remove") :
              /\ k - 1 \in Detach("flush")
              /\ fc.log[k - 1].device = fc.log[k].device
              /\ fc.log[k - 1].ok
        /\ fc.ret.err # "nil" =>
              \/ fc.log = <<>>
              \/ \E k \in Detach("flush") \cup Detach("remove") : ~fc.log[k].ok

\* C17's case: of two existing candidate paths the first one's device has no
\* sysfs delete entry any more and is passed over, the second one's device is
\* flushed and then removed, and the call succeeds.
C17_Witness ==
    /\ fc.pc = "disconnected"
    /\ fc.ret.err = "nil"
    /\ Len(fc.volPaths) = 2
    /\ \E r \in Detach("resolve") : fc.log[r].path = HostDevice(1) /\ ~fc.log[r].sysfs
    /\ \E k \in Detach("remove") :
          fc.log[k].ok /\ fc.log[k].device = getContentfromSymboliclink(HostDevice(2))
    /\ \A k \in Detach("flush") :
          fc.log[k].device = getContentfromSymboliclink(HostDevice(2))

(***************************************************************************)
(* The LUN in the host device path (processLunId, getHostDevices)          *)
(***************************************************************************)

\* A string is the tuple of its characters.
DigitChars == <<"0", "1", "2", "3", "4", "5", "6", "7", "8", "9",
                "a", "b", "c", "d", "e", "f">>

\* The LUNs below MaxLun and a few with both 16-bit words in use.
MaxLun == 300

LowWords == {0, 1, 255, 256, 4096, 43981, 65535}

HighWords == {1, 2, 255, 4660, 32767}

Luns == (-2..MaxLun) \cup {hi * 65536 + lo : hi \in HighWords, lo \in LowWords}

\* strconv.Itoa
RECURSIVE Itoa(_)
Itoa(n) ==
    IF n < 0 THEN <<"-">> \o Itoa(-n)
    ELSE IF n < 10 THEN <<DigitChars[n + 1]>>
    ELSE Itoa(n \div 10) \o <<DigitChars[(n % 10) + 1]>>

\* The value of a character as a digit of the base, or -1.
DigitValue(c, base) ==
    IF \E d \in 1..base : DigitChars[d] = c
    THEN (CHOOSE d \in 1..base : DigitChars[d] = c) - 1
    ELSE -1

\* The value of a string of digits of the base, most significant first.
RECURSIVE ParseUint(_, _)
ParseUint(str, base) ==
    IF str = <<>> THEN 0
    ELSE ParseUint(SubSeq(str, 1, Len(str) - 1), base) * base
             + DigitValue(str[Len(str)], base)

\* lunIdInt, _ := strconv.Atoi(lunId): an optional sign and decimal digits;
\* on a syntax error the value is 0 and the error is dropped.
Atoi(str) ==
    LET signed == str # <<>> /\ str[1] \in {"-", "+"}
        digits == IF signed THEN Tail(str) ELSE str
    IN IF digits = <<>> \/ \E k \in 1..Len(digits) : DigitValue(digits[k], 10) < 0
       THEN 0
       ELSE IF signed /\ str[1] = "-" THEN -ParseUint(digits, 10)
       ELSE ParseUint(digits, 10)

\* The digits of n in base 16, most significant first.
RECURSIVE HexDigits(_)
HexDigits(n) ==
    IF n < 16 THEN <<DigitChars[n + 1]>>
    ELSE HexDigits(n \div 16) \o <<DigitChars[(n % 16) + 1]>>

\* fmt's %04x: the hex digits, padded with zeros on the left to 4 at least.
RECURSIVE PadLeft(_, _)
PadLeft(str, width) == IF Len(str) >= width THEN str ELSE PadLeft(<<"0">> \o str, width)

Sprintf04x(n) == PadLeft(HexDigits(n), 4)

\* The encoding with the word of bits 16..31 put before the low word.
processLunIdHighWordFirst(lunId) ==
    LET lunIdInt == Atoi(lunId)
    IN IF lunIdInt < 256 THEN lunId
       ELSE <<"0", "x">> \o Sprintf04x((lunIdInt \div 65536) % 65536)
                \o Sprintf04x(lunIdInt % 65536)
                \o <<"0", "0", "0", "0", "0", "0", "0", "0">>

\* fmt.Sprintf("0x%04x%04x00000000", lunIdInt&0xffff, lunIdInt>>16&0xffff)
\* for a lunIdInt of 256 or more; the string itself below that.
processLunId(lunId) ==
    LET lunIdInt == Atoi(lunId)
    IN IF lunIdInt < 256 THEN lunId
       ELSE <<"0", "x">> \o Sprintf04x(lunIdInt % 65536)
                \o Sprintf04x((lunIdInt \div 65536) % 65536)
                \o <<"0", "0", "0", "0", "0", "0", "0", "0">>

\* getHostDevices(devices, strconv.Itoa(conn.TargetLun)): the last part of
\* each host device path, "-lun-" and the encoded LUN.
GetHostDevices ==
    /\ fc.pc = "lun"
    /\ fc' = [fc EXCEPT !.pc = "hostDevices", !.lunPart = processLunId(Itoa(fc.lun))]
    /\ UNCHANGED <<handler, errchan, brain, db, lvm>>

InitLun ==
    /\ handler = [r \in Requests |-> IdleHandler]
    /\ errchan = [r \in Requests |-> NoChan]
    /\ brain = [r \in Requests |-> NoBrain]
    /\ db = [x \in Resources |-> "absent"]
    /\ \E n \in Luns : fc = [pc |-> "lun", lun |-> n, lunPart |-> EmptyString]
    /\ lvm = LvmIdle

NextLun == GetHostDevices

SpecLun == InitLun /\ [][NextLun]_vars

\* A string that is the decimal form of n: an optional "-", then digits with
\* no leading zero, whose value is n.
IsDecimalOf(str, n) ==
    LET digits == IF n < 0 THEN Tail(str) ELSE str
        abs == IF n < 0 THEN -n ELSE n
    IN /\ str # <<>>
       /\ n < 0 => str[1] = "-"
       /\ digits # <<>>
       /\ \A k \in 1..Len(digits) : DigitValue(digits[k], 10) >= 0
       /\ Len(digits) > 1 => digits[1] # "0"
       /\ ParseUint(digits, 10) = abs

\* C22: for every LUN below 256 the encoded LUN is the decimal string of the
\* LUN; for every LUN of 256 or more it is "0x" and exactly 16 hex digits: 4
\* for the low 16-bit word, 4 for the word of bits 16..31, then 8 zeros. The
\* encoding changes nothing but its result (and so gives one output per LUN).
C22_LunEncoding ==
    [][(fc.pc = "lun" /\ fc'.pc = "hostDevices") =>
          LET out == fc'.lunPart
              n == fc.lun
          IN /\ fc'.lun = n
             /\ UNCHANGED <<handler, errchan, brain, db, lvm>>
             /\ out = processLunId(Itoa(n))
             /\ IF n < 256 THEN IsDecimalOf(out, n)
                ELSE /\ Len(out) = 18
                     /\ SubSeq(out, 1, 2) = <<"0", "x">>
                     /\ \A k \in 3..18 : DigitValue(out[k], 16) >= 0
                     /\ ParseUint(SubSeq(out, 3, 6), 16) = n % 65536
                     /\ ParseUint(SubSeq(out, 7, 10), 16) = (n \div 65536) % 65536
                     /\ \A k \in 11..18 : out[k] = "0"]_vars

\* C22's case: a LUN with both 16-bit words in use has been encoded.
C22_Witness ==
    /\ fc.pc = "hostDevices"
    /\ fc.lun >= 65536
    /\ fc.lun % 65536 >= 256
    /\ Len(fc.lunPart) = 18

(***************************************************************************)
(* Part 3: the LVM driver (src/contrib/drivers/lvm/lvm.go)                 *)
(***************************************************************************)

\* Resource ids and sizes (GiB) the driver is called with in the model.
MaxId == 1

Ids == 1..MaxId
Sizes == {1}
Pools == {"vg0"}

volumePrefix == "volume-"
snapshotPrefix == "_snapshot-"

\* path.Join("/dev", polName, name)
LvPathOf(pool, prefix, id) == <<"/dev", pool, <<prefix, id>>>>

\* lvsDir, _ = path.Split(lvPath); lvsPath = path.Join(lvsDir, snapName)
SiblingPath(lvPath, name) == <<lvPath[1], lvPath[2], name>>

\* What lvdisplay prints for a logical volume, as lines of fields
\* (strings.Fields): "LV Path <path>" and "LV Status available" or
\* "LV Status NOT available".
LvDisplayOutput(path, status) ==
    << <<"---", "Logical", "volume", "---">>,
       <<"LV", "Path", path>>,
       <<"LV", "Name", path[3]>>,
       <<"LV", "Status">> \o status >>

LvStatuses == {<<"available">>, <<"NOT", "available">>}

\* strings.Contains(line, "LV <label>")
LineHasLabel(line, label) ==
    \E k \in 1..(Len(line) - 1) : line[k] = "LV" /\ line[k + 1] = label

\* for _, line := range lines { if strings.Contains(line, label) { x = strings.Fields(line)[2] } }
\* : the third field of the last line with the label, else the value before.
ParseLabel(lines, label, before) ==
    LET at == {k \in 1..Len(lines) : LineHasLabel(lines[k], label)}
    IN IF at = {} THEN before
       ELSE lines[CHOOSE k \in at : \A m \in at : m <= k][3]

\* d.handler(script, args): the command is issued; when it succeeds it has
\* its effect on the backend. lvcreate and lvremove fail on a name that is
\* taken or gone.
CanSucceed(b, cmd, arg) ==
    CASE cmd = "lvcreate" -> arg \notin b.lvs
      [] cmd \in {"lvremove", "lvdisplay", "lvchange", "lvresize"} -> arg \in b.lvs
      [] OTHER -> TRUE

\* The snapshots the backend holds of the logical volume at lvPath.
SnapshotsOf(b, lvPath) == {pr[1] : pr \in {q \in b.origin : q[2] = lvPath}}

\* lvremove -f of an origin removes its snapshots with it; lvchange -an
\* deactivates the logical volume it names.
Exec(b, cmd, arg, ok) ==
    LET gone == IF ok /\ cmd = "lvremove" THEN {arg} \cup SnapshotsOf(b, arg) ELSE {}
    IN [b EXCEPT !.cmds = Append(@, [cmd |-> cmd, arg |-> arg, ok |-> ok]),
                 !.lvs = IF ok /\ cmd = "lvcreate" THEN @ \cup {arg} ELSE @ \ gone,
                 !.origin = {q \in @ : q[1] \notin gone},
                 !.inactive = IF ok /\ cmd = "lvchange" THEN @ \cup {arg} ELSE @ \ gone]

\* lvcreate -s lvPath: the logical volume made is a snapshot of lvPath.
SetOrigin(b, lvsPath, lvPath, ok) ==
    IF ok THEN [b EXCEPT !.origin = @ \cup {<<lvsPath, lvPath>>}] ELSE b

\* A call of the export target or of the connector, noted like a command.
\* CreateExport / RemoveExport change the exports of the backend.
Call(b, cmd, arg, ok) ==
    [b EXCEPT !.cmds = Append(@, [cmd |-> cmd, arg |-> arg, ok |-> ok]),
              !.exports = CASE ok /\ cmd = "CreateExport" -> @ \cup {arg}
                            [] ok /\ cmd = "RemoveExport" -> @ \ {arg}
                            [] OTHER -> @]

Returns(b, val, err) == [b EXCEPT !.ret = [val |-> val, err |-> err]]

Begin(b, op, opt) ==
    [b EXCEPT !.op = op, !.opt = opt, !.cmds = <<>>, !.ret = [val |-> NilSpec, err |-> "nil"]]

\* The outcomes of the external commands and collaborators of one driver call.
Outcomes ==
    [lvcreate : BOOLEAN, lvdisplay : BOOLEAN, status : LvStatuses, seed : BOOLEAN,
     lvremove : BOOLEAN, export : BOOLEAN, attach : BOOLEAN, unexport : BOOLEAN,
     upload : BOOLEAN]

\* The outcomes CreateVolume can meet: it neither exports nor uploads, and the
\* outcome of a command it does not get to run is left at its default.
CreateVolumeOutcomes ==
    {o \in Outcomes :
        /\ o.export /\ o.attach /\ o.unexport /\ o.upload
        /\ ~o.lvcreate => o.lvdisplay
        /\ ~(o.lvcreate /\ o.lvdisplay) =>
               o.seed /\ o.lvremove /\ o.status = <<"available">>}

\* The outcomes CreateSnapshot can meet: it seeds nothing, and the outcome of
\* a command it does not get to run is left at its default.
CreateSnapshotOutcomes ==
    {o \in Outcomes :
        /\ o.seed
        /\ ~o.lvcreate => o.lvdisplay
        /\ ~(o.lvcreate /\ o.lvdisplay) =>
               o.export /\ o.lvremove /\ o.status = <<"available">>
        /\ ~o.export => o.attach
        /\ ~(o.export /\ o.attach) => o.upload /\ o.unexport}

\* Metadata maps: a function from the keys present to their values.
NoMetadata == [k \in {} |-> ""]

\* CreateVolume, after the deferred rollback is registered: the seeding of the
\* volume from a snapshot, and the result.
Driver_CreateVolume_Seed(b, opt, o, lvPath, lvStatus) ==
    LET vol == [nil |-> FALSE, id |-> opt.id, name |-> opt.name, size |-> opt.size,
                description |-> opt.description,
                status |-> lvStatus, metadata |-> [lvPath |-> lvPath]]
    IN IF opt.snapshotId # 0
       THEN IF opt.snapshotFromCloud
            THEN IF "backupId" \notin DOMAIN opt.metadata
                 THEN Returns(b, NilSpec, "can't find backupId in metadata")
                 ELSE IF "bucket" \notin DOMAIN opt.metadata
                 THEN Returns(b, NilSpec, "can't find bucket name in metadata")
                 ELSE LET b1 == Call(b, "Restore", lvPath, o.seed)
                      IN IF ~o.seed THEN Returns(b1, NilSpec, "download failed")
                         ELSE Returns(b1, vol, "nil")
            ELSE LET b1 == Exec(b, "dd", lvPath, o.seed)
                 IN IF ~o.seed THEN Returns(b1, NilSpec, "dd failed")
                    ELSE Returns(b1, vol, "nil")
       ELSE Returns(b, vol, "nil")

\* lv, err := d.handler("lvdisplay", ...): what the last command printed is
\* noted with the command.
Printed(b, out) == [b EXCEPT !.cmds[Len(b.cmds)] = [cmd |-> @.cmd, arg |-> @.arg, ok |-> @.ok, out |-> out]]

\* A rollback whose own failure becomes the error of the call.
RollbackErrorReplaces(b, o, lvPath) ==
    LET ok == o.lvremove /\ CanSucceed(b, "lvremove", lvPath)
        b1 == Exec(b, "lvremove", lvPath, ok)
    IN IF b.ret.val # NilSpec THEN b
       ELSE IF ok THEN b1 ELSE Returns(b1, NilSpec, "lvremove failed")

\* defer func() { if vol == nil { d.handler("lvremove", "-f", lvPath) } }()
Driver_CreateVolume_Rollback(b, o, lvPath) ==
    IF b.ret.val = NilSpec
    THEN Exec(b, "lvremove", lvPath, o.lvremove /\ CanSucceed(b, "lvremove", lvPath))
    ELSE b

Driver_CreateVolume(b0, opt, o) ==
    LET b == Begin(b0, "CreateVolume", opt)
        lvPath0 == LvPathOf(opt.pool, volumePrefix, opt.id)
        created == o.lvcreate /\ CanSucceed(b, "lvcreate", lvPath0)
        b1 == Exec(b, "lvcreate", lvPath0, created)
        shown == o.lvdisplay /\ CanSucceed(b1, "lvdisplay", lvPath0)
        lv == LvDisplayOutput(lvPath0, o.status)
        b2 == IF shown THEN Printed(Exec(b1, "lvdisplay", lvPath0, shown), lv)
              ELSE Exec(b1, "lvdisplay", lvPath0, shown)
        lvPath == ParseLabel(lv, "Path", lvPath0)
        lvStatus == ParseLabel(lv, "Status", "")
    IN IF ~created THEN Returns(b1, NilSpec, "lvcreate failed")
       ELSE IF ~shown THEN Returns(b2, NilSpec, "lvdisplay failed")
       ELSE Driver_CreateVolume_Rollback(
                Driver_CreateVolume_Seed(b2, opt, o, lvPath, lvStatus), o, lvPath)

\* TerminateSnapshotConnection(opt): t.RemoveExport(opt.GetSnapshotId())
Driver_TerminateSnapshotConnection(b, snapshotId, o) ==
    Call(b, "RemoveExport", snapshotId, o.unexport /\ snapshotId \in b.exports)

\* AttachSnapshot: InitializeSnapshotConnection creates the export, then the
\* connector attaches; when the attach fails the deferred rollback calls
\* TerminateSnapshotConnection with an empty DeleteSnapshotAttachmentOpts
\* (snapshot id "", here 0). The result's err is "nil" on success.
Driver_AttachSnapshot(b, snapshotId, lvsPath, o) ==
    LET b1 == Call(b, "CreateExport", snapshotId, o.export)
        b2 == Call(b1, "Attach", snapshotId, o.attach)
    IN IF ~o.export THEN [b |-> b1, err |-> "CreateExport failed"]
       ELSE IF ~o.attach
       THEN [b |-> Driver_TerminateSnapshotConnection(b2, 0, o), err |-> "Attach failed"]
       ELSE [b |-> b2, err |-> "nil"]

\* DetachSnapshot: con.Detach, then TerminateSnapshotConnection of the snapshot
Driver_DetachSnapshot(b, snapshotId, o) ==
    Driver_TerminateSnapshotConnection(Call(b, "Detach", snapshotId, TRUE), snapshotId, o)

\* The id uploadSnapshot gives the uploaded copy (uuid.NewV4()).
BackupIdOf(snapshotId) == <<"backup", snapshotId>>

\* An upload step that attaches and uploads but returns the snapshot whether
\* or not the upload succeeded.
UploadResultIgnored(b, opt, o, lvsPath, lvStatus) ==
    LET att == Driver_AttachSnapshot(b, opt.id, lvsPath, o)
        b1 == Call(att.b, "Backup", BackupIdOf(opt.id), o.upload)
    IN IF "bucket" \in DOMAIN opt.metadata /\ att.err = "nil"
       THEN Returns(Driver_DetachSnapshot(b1, opt.id, o),
                    [nil |-> FALSE, id |-> opt.id, metadata |-> [lvsPath |-> lvsPath]], "nil")
       ELSE Returns(att.b, NilSpec, att.err)

\* CreateSnapshot from the registration of the deferred rollback on: the
\* upload when metadata has a bucket (with its deferred DetachSnapshot, which
\* runs first when the function returns), and the result.
Driver_CreateSnapshot_Upload(b, opt, o, lvsPath, lvStatus) ==
    LET snap(md) == [nil |-> FALSE, id |-> opt.id, name |-> opt.name, size |-> opt.size,
                     status |-> lvStatus, volumeId |-> opt.volumeId, metadata |-> md]
    IN IF "bucket" \in DOMAIN opt.metadata
       THEN LET att == Driver_AttachSnapshot(b, opt.id, lvsPath, o)
            IN IF att.err # "nil" THEN Returns(att.b, NilSpec, att.err)
               ELSE LET b1 == Call(att.b, "Backup", BackupIdOf(opt.id), o.upload)
                        b2 == Exec(b1, "lvremove", lvsPath,
                                   o.lvremove /\ CanSucceed(b1, "lvremove", lvsPath))
                    IN IF ~o.upload
                       THEN Returns(Driver_DetachSnapshot(b2, opt.id, o), NilSpec, "upload failed")
                       ELSE Returns(Driver_DetachSnapshot(b1, opt.id, o),
                                    snap([lvsPath |-> lvsPath, backupId |-> BackupIdOf(opt.id),
                                          bucket |-> opt.metadata["bucket"]]),
                                    "nil")
       ELSE Returns(b, snap([lvsPath |-> lvsPath]), "nil")

\* defer func() { if snap == nil { d.handler("lvremove", "-f", lvsPath) } }()
Driver_CreateSnapshot_Rollback(b, o, lvsPath) ==
    IF b.ret.val = NilSpec
    THEN Exec(b, "lvremove", lvsPath, o.lvremove /\ CanSucceed(b, "lvremove", lvsPath))
    ELSE b

Driver_CreateSnapshot(b0, opt, o) ==
    LET b == Begin(b0, "CreateSnapshot", opt)
        hasPath == "lvPath" \in DOMAIN opt.metadata
        lvPath == opt.metadata["lvPath"]
        lvsPath == SiblingPath(lvPath, <<snapshotPrefix, opt.id>>)
        created == o.lvcreate /\ lvPath \in b.lvs /\ CanSucceed(b, "lvcreate", lvsPath)
        b1 == SetOrigin(Exec(b, "lvcreate", lvsPath, created), lvsPath, lvPath, created)
        shown == o.lvdisplay /\ CanSucceed(b1, "lvdisplay", lvsPath)
        b2 == Exec(b1, "lvdisplay", lvsPath, shown)
        lvStatus == ParseLabel(LvDisplayOutput(lvsPath, o.status), "Status", "")
    IN IF ~hasPath THEN Returns(b, NilSpec, "Failed to find logic volume path")
       ELSE IF ~created THEN Returns(b1, NilSpec, "lvcreate failed")
       ELSE IF ~shown THEN Returns(b2, NilSpec, "lvdisplay failed")
       ELSE Driver_CreateSnapshot_Rollback(
                Driver_CreateSnapshot_Upload(b2, opt, o, lvsPath, lvStatus), o, lvsPath)

\* geLvInfos: the names the `lvs` command lists; the caller volumeExists drops
\* its error, so a failed listing is an empty list.
geLvInfos(b, ok) == IF ok THEN {p[3] : p \in b.lvs} ELSE {}

\* An existence check that takes every volume as present.
volumeAlwaysExists(b, id, ok) == TRUE

\* volumeExists(id): some listed logical volume is named volumePrefix + id
volumeExists(b, id, ok) == <<volumePrefix, id>> \in geLvInfos(b, ok)

\* The Attr column lvdisplay prints for a logical volume, by its first
\* character: o for the origin of a snapshot, s for a snapshot.
LvAttr(b, lvPath) ==
    CASE SnapshotsOf(b, lvPath) # {} -> <<"o", "w", "i">>
      [] \E q \in b.origin : q[1] = lvPath -> <<"s", "w", "i">>
      [] OTHER -> <<"-", "w", "i">>

\* lvHasSnapshot(lvPath): false when lvdisplay fails, else info[0] is o or O
lvHasSnapshot(b, lvPath, ok) == ok /\ LvAttr(b, lvPath)[1] \in {"o", "O"}

\* Every path a logical volume of the model can have, in the order lvdisplay
\* lists them.
AllLvPaths ==
    [k \in 1..(2 * MaxId) |->
        IF k <= MaxId THEN LvPathOf("vg0", volumePrefix, k)
        ELSE LvPathOf("vg0", snapshotPrefix, k - MaxId)]

\* What lvdisplay without arguments prints: for every logical volume its
\* "LV Path" line and, for a snapshot, its "LV snapshot status" line.
LvDisplayAll(b) ==
    LET block(p) ==
            LET from == {q \in b.origin : q[1] = p}
            IN IF from = {} THEN << <<"LV", "Path", p>> >>
               ELSE << <<"LV", "Path", p>>,
                       <<"LV", "snapshot", "status",
                         IF p \in b.inactive THEN "INACTIVE" ELSE "active",
                         "destination", "for", (CHOOSE q \in from : TRUE)[2][3]>> >>
        present == SelectSeq(AllLvPaths, LAMBDA p : p \in b.lvs)
    IN [k \in 1..Len(present) |-> block(present[k])]

\* getActiveSnapshotsPathsOfLv, the parse: the path of every block whose
\* snapshot status is "active destination for " + lvName, lvName being the
\* last element of lvPath.
ActiveSnapshotsPaths(blocks, lvPath) ==
    LET lvName == lvPath[Len(lvPath)]
        isActive(blk) ==
            \E k \in 1..Len(blk) :
                /\ Len(blk[k]) = 7
                /\ SubSeq(blk[k], 1, 3) = <<"LV", "snapshot", "status">>
                /\ SubSeq(blk[k], 4, 7) = <<"active", "destination", "for", lvName>>
        hits == SelectSeq(blocks, isActive)
    IN [k \in 1..Len(hits) |-> ParseLabel(hits[k], "Path", "")]

\* deactivateSnapshotsOfLv: lvchange -an -y of each path in turn, stopping at
\* the first that fails (the failAt-th; 0 when none fails).
RECURSIVE deactivateSnapshotsOfLv(_, _, _, _)
deactivateSnapshotsOfLv(b, snapshotsPaths, k, failAt) ==
    IF k > Len(snapshotsPaths) THEN [b |-> b, err |-> "nil"]
    ELSE LET ok == k # failAt /\ CanSucceed(b, "lvchange", snapshotsPaths[k])
             b1 == Exec(b, "lvchange", snapshotsPaths[k], ok)
         IN IF ~ok THEN [b |-> b1, err |-> "lvchange failed"]
            ELSE deactivateSnapshotsOfLv(b1, snapshotsPaths, k + 1, failAt)

Driver_DeleteVolume(b0, opt, o) ==
    LET b == Begin(b0, "DeleteVolume", opt)
        b1 == Exec(b, "lvs", <<>>, o.lvs)
        lvPath == opt.metadata["lvPath"]
        shown == o.lvattr /\ CanSucceed(b1, "lvdisplay", lvPath)
        b2 == Exec(b1, "lvdisplay", lvPath, shown)
        removed == o.lvremove /\ CanSucceed(b2, "lvremove", lvPath)
        b3 == Exec(b2, "lvremove", lvPath, removed)
    IN IF ~volumeExists(b, opt.id, o.lvs) THEN Returns(b1, NilSpec, "nil")
       ELSE IF "lvPath" \notin DOMAIN opt.metadata
       THEN Returns(b1, NilSpec, "failed to find logic volume path in volume metadata")
       ELSE IF lvHasSnapshot(b1, lvPath, shown)
       THEN Returns(b2, NilSpec, "unable to delete due to existing snapshot for volume")
       ELSE IF ~removed THEN Returns(b3, NilSpec, "lvremove failed")
       ELSE Returns(b3, NilSpec, "nil")

\* A resize that returns a metadata map built anew from the path alone.
ResizeRebuildsMetadata(b, opt, o, lvPath) ==
    LET resized == o.lvresize /\ CanSucceed(b, "lvresize", lvPath)
        b1 == Exec(b, "lvresize", lvPath, resized)
    IN IF ~resized THEN Returns(b1, NilSpec, "lvresize failed")
       ELSE Returns(b1, [nil |-> FALSE, id |-> opt.id, name |-> opt.name,
                         size |-> opt.size, metadata |-> NoMetadata], "nil")

\* ExtendVolume from its lvresize on
Driver_ExtendVolume_Resize(b, opt, o, lvPath) ==
    LET resized == o.lvresize /\ CanSucceed(b, "lvresize", lvPath)
        b1 == Exec(b, "lvresize", lvPath, resized)
    IN IF ~resized THEN Returns(b1, NilSpec, "lvresize failed")
       ELSE Returns(b1, [nil |-> FALSE, id |-> opt.id, name |-> opt.name,
                         size |-> opt.size, metadata |-> opt.metadata], "nil")

Driver_ExtendVolume(b0, opt, o) ==
    LET b == Begin(b0, "ExtendVolume", opt)
        lvPath == opt.metadata["lvPath"]
        shown == o.lvattr /\ CanSucceed(b, "lvdisplay", lvPath)
        b1 == Exec(b, "lvdisplay", lvPath, shown)
        b2 == Exec(b1, "lvdisplay", <<>>, o.lvdisplay)
        snapshotsPathsOfLv == ActiveSnapshotsPaths(LvDisplayAll(b1), lvPath)
        off == deactivateSnapshotsOfLv(b2, snapshotsPathsOfLv, 1, o.failAt)
    IN IF "lvPath" \notin DOMAIN opt.metadata
       THEN Returns(b, NilSpec, "failed to find logic volume path in volume metadata")
       ELSE IF ~lvHasSnapshot(b, lvPath, shown)
       THEN Driver_ExtendVolume_Resize(b1, opt, o, lvPath)
       ELSE IF ~o.lvdisplay THEN Returns(b2, NilSpec, "lvdisplay failed")
       ELSE IF off.err # "nil" THEN Returns(off.b, NilSpec, off.err)
       ELSE Driver_ExtendVolume_Resize(off.b, opt, o, lvPath)

\* A volume and a snapshot never have the same id: in the exports of the
\* target, volume v is numbered MaxId + v.
VolumeExportId(v) == MaxId + v

\* The caller's value as it is, with no default for the empty string.
AsGiven(str) == str

\* initiator / hostIP: "ALL" where the caller's HostInfo has the empty string
OrAll(str) == IF str = "" THEN "ALL" ELSE str

\* chapAuth: two random secrets of 20 and of 16 characters when
\* conf.EnableChapAuth, a nil slice otherwise.
RandSeqWithAlnum(n) == [rand |-> n]

ChapAuth(conf) ==
    IF conf.enableChapAuth THEN <<RandSeqWithAlnum(20), RandSeqWithAlnum(16)>> ELSE <<>>

\* t.CreateExport(id, path, hostIP, initiator, chapAuth), noted with all it
\* is passed.
CreateExport(b, id, path, hostIP, initiator, chapAuth, ok) ==
    [b EXCEPT !.cmds = Append(@, [cmd |-> "CreateExport", arg |-> id, ok |-> ok,
                                  path |-> path, hostIP |-> hostIP,
                                  initiator |-> initiator, chapAuth |-> chapAuth]),
              !.exports = IF ok THEN @ \cup {id} ELSE @]

Driver_InitializeConnection(b0, opt, o) ==
    LET b == Begin(b0, "InitializeConnection", opt)
        initiator == OrAll(opt.hostInfo.initiator)
        hostIP == OrAll(opt.hostInfo.ip)
        b1 == CreateExport(b, VolumeExportId(opt.volumeId), opt.metadata["lvPath"],
                           hostIP, initiator, ChapAuth(b.conf), o.export)
    IN IF "lvPath" \notin DOMAIN opt.metadata
       THEN Returns(b, NilSpec, "Failed to find logic volume path in volume attachment metadata!")
       ELSE IF ~o.export THEN Returns(b1, NilSpec, "CreateExport failed")
       ELSE Returns(b1, [nil |-> FALSE, driverVolumeType |-> "iscsi",
                         connectionData |-> opt.metadata["lvPath"]], "nil")

Driver_InitializeSnapshotConnection(b0, opt, o) ==
    LET b == Begin(b0, "InitializeSnapshotConnection", opt)
        initiator == OrAll(opt.hostInfo.initiator)
        hostIP == OrAll(opt.hostInfo.ip)
        b1 == CreateExport(b, opt.snapshotId, opt.metadata["lvsPath"],
                           hostIP, initiator, ChapAuth(b.conf), o.export)
    IN IF "lvsPath" \notin DOMAIN opt.metadata
       THEN Returns(b, NilSpec, "Failed to find logic volume path in volume attachment metadata!")
       ELSE IF ~o.export THEN Returns(b1, NilSpec, "CreateExport failed")
       ELSE Returns(b1, [nil |-> FALSE, driverVolumeType |-> "iscsi",
                         connectionData |-> opt.metadata["lvsPath"]], "nil")

\* The output of "vgs --noheadings --nosuffix --unit=g -o name,size,free,uuid":
\* a line is the tuple of its fields (strings.Fields); sizes are in hundredths
\* of a GiB, as in "2.50". The output may hold a line without fields.
MaxVgLines == 2

VgUuids == {"uuid-a", "uuid-b"}

VgLines ==
    {<<>>} \cup {<<name, 250, free, uuid>> :
                    name \in PoolNames, free \in {100, 250}, uuid \in VgUuids}

RECURSIVE SeqsUpTo(_, _)
SeqsUpTo(S, n) ==
    IF n = 0 THEN {<<>>}
    ELSE LET shorter == SeqsUpTo(S, n - 1)
         IN shorter \cup {Append(q, x) : q \in {t \in shorter : Len(t) = n - 1}, x \in S}

VgsOutputs == SeqsUpTo(VgLines, MaxVgLines)

\* capa, _ := strconv.ParseFloat(val, 64); int64(capa)
ParseCapacity(hundredths) == hundredths \div 100

\* getVGList: the lines of four fields, in the order of the output
RECURSIVE getVGList(_)
getVGList(lines) ==
    IF lines = <<>> THEN <<>>
    ELSE LET val == Head(lines)
         IN IF Len(val) # 4 THEN getVGList(Tail(lines))
            ELSE <<[name |-> val[1], totalCapacity |-> ParseCapacity(val[2]),
                    freeCapacity |-> ParseCapacity(val[3]), uuid |-> val[4]]>>
                     \o getVGList(Tail(lines))

\* uuid.NewV5(namespace, name): the name-based UUID, the hash of the two
NamespaceOID == "6ba7b812-9dad-11d1-80b4-00c04fd430c8"

NewV5(namespace, name) == [v5 |-> <<namespace, name>>]

\* A pool id made from the name of the volume group and its place in the
\* listing, where the code makes it from the volume group's UUID.
PoolIdByPlace(vg, place) == [v5 |-> <<NamespaceOID, vg.name, place>>]

\* Id: uuid.NewV5(uuid.NamespaceOID, vg.UUID).String()
PoolId(vg, place) == NewV5(NamespaceOID, vg.uuid)

\* d.conf.Pool[name]: the properties of the pool, the zero value for a name
\* the map does not hold.
PoolOf(conf, name) ==
    IF name \in DOMAIN conf.pool THEN conf.pool[name]
    ELSE [storageType |-> "", availabilityZone |-> ""]

\* Every volume group is taken as declared.
DeclaredAlways(conf, name) == TRUE

\* _, ok := d.conf.Pool[vg.Name]
Declared(conf, name) == name \in DOMAIN conf.pool

\* The loop of ListPools over the volume groups from the k-th on. Next to the
\* fields of the StoragePoolSpec each pool carries the UUID of the volume
\* group it was made from.
RECURSIVE ListPoolsFrom(_, _, _)
ListPoolsFrom(conf, vgs, k) ==
    IF k > Len(vgs) THEN <<>>
    ELSE IF ~Declared(conf, vgs[k].name) THEN ListPoolsFrom(conf, vgs, k + 1)
    ELSE LET az == PoolOf(conf, vgs[k].name).availabilityZone
         IN <<[id |-> PoolId(vgs[k], k), name |-> vgs[k].name, uuid |-> vgs[k].uuid,
               totalCapacity |-> vgs[k].totalCapacity,
               freeCapacity |-> vgs[k].freeCapacity,
               storageType |-> PoolOf(conf, vgs[k].name).storageType,
               availabilityZone |-> IF az = "" THEN "default" ELSE az]>>
                  \o ListPoolsFrom(conf, vgs, k + 1)

\* ListPools: (nil, err) when vgs fails, the pools of the declared volume
\* groups otherwise.
Driver_ListPools(b0, output, ok) ==
    LET b == Exec(Begin(b0, "ListPools", [output |-> output]), "vgs", <<>>, ok)
        pols == ListPoolsFrom(b.conf, getVGList(output), 1)
    IN IF ~ok THEN Returns(b, NilSpec, "vgs failed") ELSE Returns(b, pols, "nil")

\* deleteUploadedSnapshot(backupId, bucket): mc.Delete of the uploaded copy
Driver_deleteUploadedSnapshot(b, backupId, ok) == Call(b, "Delete", backupId, ok)

\* opt.Metadata["backupId"]: the empty string when the key is missing
BackupIdIn(metadata) ==
    IF "backupId" \in DOMAIN metadata THEN metadata["backupId"] ELSE EmptyString

Driver_DeleteSnapshot(b0, opt, o) ==
    LET b == Begin(b0, "DeleteSnapshot", opt)
        lvsPath == opt.metadata["lvsPath"]
        hasBucket == "bucket" \in DOMAIN opt.metadata
        b1 == IF hasBucket
              THEN Driver_deleteUploadedSnapshot(b, BackupIdIn(opt.metadata), o.delete)
              ELSE b
        removed == o.lvremove /\ CanSucceed(b1, "lvremove", lvsPath)
        b2 == Exec(b1, "lvremove", lvsPath, removed)
    IN IF "lvsPath" \notin DOMAIN opt.metadata THEN Returns(b, NilSpec, "nil")
       ELSE IF hasBucket /\ ~o.delete THEN Returns(b1, NilSpec, "delete backup failed")
       ELSE IF ~removed THEN Returns(b2, NilSpec, "lvremove failed")
       ELSE Returns(b2, NilSpec, "nil")

\* What the dock passes to CreateVolume: snapshotId 0 stands for "".
CreateVolumeOpts ==
    {[id |-> id, name |-> <<"name", id>>, description |-> <<"description", id>>,
      size |-> size, pool |-> pool,
      snapshotId |-> sid, snapshotFromCloud |-> cloud, metadata |-> md] :
        id \in Ids, size \in Sizes, pool \in Pools, sid \in {0} \cup Ids, cloud \in BOOLEAN,
        md \in {NoMetadata, [backupId |-> BackupIdOf(1)], [bucket |-> "b"],
                [backupId |-> BackupIdOf(1), bucket |-> "b"]}}

\* What the dock passes to CreateSnapshot.
CreateVolumeSnapshotOpts ==
    {[id |-> id, name |-> <<"name", id>>, size |-> size, volumeId |-> vid, metadata |-> md] :
        id \in Ids, size \in Sizes, vid \in Ids,
        md \in UNION {{NoMetadata, [bucket |-> "b"],
                       [lvPath |-> LvPathOf(pool, volumePrefix, v)],
                       [lvPath |-> LvPathOf(pool, volumePrefix, v), bucket |-> "b"]} :
                          v \in Ids, pool \in Pools}}

CallCreateVolume ==
    /\ lvm.op = "none"
    /\ \E opt \in CreateVolumeOpts, o \in CreateVolumeOutcomes :
          lvm' = Driver_CreateVolume(lvm, opt, o)
    /\ UNCHANGED apiVars
    /\ UNCHANGED fc

CallCreateSnapshot ==
    /\ lvm.op = "none"
    /\ \E opt \in CreateVolumeSnapshotOpts, o \in CreateSnapshotOutcomes :
          lvm' = Driver_CreateSnapshot(lvm, opt, o)
    /\ UNCHANGED apiVars
    /\ UNCHANGED fc

\* The metadata a caller may hold for a volume: none, or the lvPath of a volume.
VolumeMetadata ==
    {NoMetadata} \cup {[lvPath |-> LvPathOf(pool, volumePrefix, v)] : v \in Ids, pool \in Pools}

\* The metadata a caller may hold for a snapshot.
SnapshotMetadata ==
    {NoMetadata, [bucket |-> "b", backupId |-> BackupIdOf(1)]} \cup
    UNION {{[lvsPath |-> LvPathOf(pool, snapshotPrefix, s)],
            [lvsPath |-> LvPathOf(pool, snapshotPrefix, s), bucket |-> "b"],
            [lvsPath |-> LvPathOf(pool, snapshotPrefix, s), bucket |-> "b",
             backupId |-> BackupIdOf(s)]} : s \in Ids, pool \in Pools}

DeleteVolumeOpts == {[id |-> id, metadata |-> md] : id \in Ids, md \in VolumeMetadata}

ExtendVolumeOpts ==
    {[id |-> id, name |-> <<"name", id>>, size |-> size, metadata |-> md] :
        id \in Ids, size \in Sizes, md \in VolumeMetadata}

\* opt.HostInfo: the initiator and the ip the caller gives, or leaves empty
HostInfos == [initiator : {"", "iqn.host"}, ip : {"", "192.168.0.2"}]

CreateAttachmentOpts ==
    {[volumeId |-> v, metadata |-> md, hostInfo |-> h] :
        v \in Ids, md \in VolumeMetadata, h \in HostInfos}

CreateSnapshotAttachmentOpts ==
    {[snapshotId |-> id, metadata |-> md, hostInfo |-> h] :
        id \in Ids, md \in SnapshotMetadata, h \in HostInfos}

DeleteVolumeSnapshotOpts == {[id |-> id, metadata |-> md] : id \in Ids, md \in SnapshotMetadata}

\* The outcomes of the commands of DeleteVolume, ExtendVolume,
\* InitializeConnection and DeleteSnapshot.
DeleteVolumeOutcomes == [lvs : BOOLEAN, lvattr : BOOLEAN, lvremove : BOOLEAN]

ExtendVolumeOutcomes ==
    [lvattr : BOOLEAN, lvdisplay : BOOLEAN, failAt : 0..MaxId, lvresize : BOOLEAN]

InitializeConnectionOutcomes == [export : BOOLEAN]

DeleteSnapshotOutcomes == [delete : BOOLEAN, lvremove : BOOLEAN]

CallDeleteVolume ==
    /\ lvm.op = "none"
    /\ \E opt \in DeleteVolumeOpts, o \in DeleteVolumeOutcomes :
          lvm' = Driver_DeleteVolume(lvm, opt, o)
    /\ UNCHANGED apiVars
    /\ UNCHANGED fc

CallExtendVolume ==
    /\ lvm.op = "none"
    /\ \E opt \in ExtendVolumeOpts, o \in ExtendVolumeOutcomes :
          lvm' = Driver_ExtendVolume(lvm, opt, o)
    /\ UNCHANGED apiVars
    /\ UNCHANGED fc

CallInitializeConnection ==
    /\ lvm.op = "none"
    /\ \E opt \in CreateAttachmentOpts, o \in InitializeConnectionOutcomes :
          lvm' = Driver_InitializeConnection(lvm, opt, o)
    /\ UNCHANGED apiVars
    /\ UNCHANGED fc

CallInitializeSnapshotConnection ==
    /\ lvm.op = "none"
    /\ \E opt \in CreateSnapshotAttachmentOpts, o \in InitializeConnectionOutcomes :
          lvm' = Driver_InitializeSnapshotConnection(lvm, opt, o)
    /\ UNCHANGED apiVars
    /\ UNCHANGED fc

CallDeleteSnapshot ==
    /\ lvm.op = "none"
    /\ \E opt \in DeleteVolumeSnapshotOpts, o \in DeleteSnapshotOutcomes :
          lvm' = Driver_DeleteSnapshot(lvm, opt, o)
    /\ UNCHANGED apiVars
    /\ UNCHANGED fc

\* The pairs <<volume-group UUID, pool id>> of the pools a ListPools call
\* has returned.
PoolIdsOf(b) ==
    IF b.op = "ListPools" /\ b.ret.err = "nil"
    THEN {<<b.ret.val[k].uuid, b.ret.val[k].id>> : k \in 1..Len(b.ret.val)}
    ELSE {}

\* The caller takes the result of the call; the driver is called again only
\* after that (the calls of the model are made one after the other).
TakeResult ==
    /\ lvm.op # "none"
    /\ lvm' = [lvm EXCEPT !.op = "none", !.opt = NilSpec, !.cmds = <<>>,
                           !.ret = [val |-> NilSpec, err |-> "nil"],
                           !.poolIds = @ \cup PoolIdsOf(lvm)]
    /\ UNCHANGED apiVars
    /\ UNCHANGED fc

\* A return of nil results and no error.
NothingToDo(b) == Returns(b, NilSpec, "nil")

\* return nil, ..., &model.NotImplementError{"Method ... did not implement."}:
\* every result is nil, and the error is noted by its type.
NotImplemented(b) == Returns(b, NilSpec, "NotImplementError")

\* CreateVolumeGroup(opt, vg) (*VolumeGroupSpec, error)
Driver_CreateVolumeGroup(b0, opt) ==
    NotImplemented(Begin(b0, "CreateVolumeGroup", opt))

\* UpdateVolumeGroup(opt, vg, addVolumesRef, removeVolumesRef)
\*     (*VolumeGroupSpec, []*VolumeSpec, []*VolumeSpec, error)
Driver_UpdateVolumeGroup(b0, opt) ==
    NotImplemented(Begin(b0, "UpdateVolumeGroup", opt))

\* DeleteVolumeGroup(opt, vg, volumes) (*VolumeGroupSpec, []*VolumeSpec, error)
Driver_DeleteVolumeGroup(b0, opt) ==
    NotImplemented(Begin(b0, "DeleteVolumeGroup", opt))

\* The group a caller names, and the volumes it names with it.
VolumeGroupOpts == {[id |-> g, volumes |-> vs] : g \in Ids, vs \in SUBSET Ids}

CallCreateVolumeGroup ==
    /\ lvm.op = "none"
    /\ \E opt \in VolumeGroupOpts : lvm' = Driver_CreateVolumeGroup(lvm, opt)
    /\ UNCHANGED apiVars
    /\ UNCHANGED fc

CallUpdateVolumeGroup ==
    /\ lvm.op = "none"
    /\ \E opt \in VolumeGroupOpts : lvm' = Driver_UpdateVolumeGroup(lvm, opt)
    /\ UNCHANGED apiVars
    /\ UNCHANGED fc

CallDeleteVolumeGroup ==
    /\ lvm.op = "none"
    /\ \E opt \in VolumeGroupOpts : lvm' = Driver_DeleteVolumeGroup(lvm, opt)
    /\ UNCHANGED apiVars
    /\ UNCHANGED fc

CallListPools ==
    /\ lvm.op = "none"
    /\ \E output \in VgsOutputs, ok \in BOOLEAN :
          lvm' = Driver_ListPools(lvm, IF ok THEN output ELSE <<>>, ok)
    /\ UNCHANGED apiVars
    /\ UNCHANGED fc

InitLvm ==
    /\ handler = [r \in Requests |-> IdleHandler]
    /\ errchan = [r \in Requests |-> NoChan]
    /\ brain = [r \in Requests |-> NoBrain]
    /\ db = [x \in Resources |-> "absent"]
    /\ fc = FcIdle
    /\ lvm = LvmIdle

NextLvm ==
    \/ CallCreateVolume
    \/ CallCreateSnapshot
    \/ CallDeleteVolume
    \/ CallExtendVolume
    \/ CallInitializeConnection
    \/ CallDeleteSnapshot
    \/ CallCreateVolumeGroup
    \/ CallUpdateVolumeGroup
    \/ CallDeleteVolumeGroup
    \/ TakeResult

SpecLvm == InitLvm /\ [][NextLvm]_vars

\* copySnapshotToVolume: the block count of the dd command. A uint64 is the
\* set of the places of its one bits (bit 0 the lowest).
blocksize == 4096

sizeShiftBit == 30

Uint64Bits == 0..63

\* x << n in a word of 32 bits.
ShiftLeft32(bits, n) == {b + n : b \in bits} \cap (0..31)

\* x << n in 64 bits: the bits that leave the word are lost.
ShiftLeft(bits, n) == {b + n : b \in bits} \cap Uint64Bits

\* The k with 2^k = n, for n a power of two.
RECURSIVE Log2(_)
Log2(n) == IF n <= 1 THEN 0 ELSE 1 + Log2(n \div 2)

\* x / n for n a power of two
DivPow2(bits, n) == {b - Log2(n) : b \in {x \in bits : x >= Log2(n)}}

\* The largest number of one bits in a snapshot size of the model.
MaxOnes == 2

\* A logical volume is smaller than 2^63 bytes, so the size in GiB of a
\* snapshot is below 2^33.
SizeBits == 0..32

RECURSIVE SetsUpTo(_, _)
SetsUpTo(S, n) ==
    IF n = 0 THEN {{}}
    ELSE LET smaller == SetsUpTo(S, n - 1)
         IN smaller \cup {q \cup {x} : q \in smaller, x \in S}

SnapshotSizes == SetsUpTo(SizeBits, MaxOnes)

\* var count = (snapSize << sizeShiftBit) / blocksize, and the dd command
\* with if=snapPath of=lvPath count=count bs=blocksize
Driver_copySnapshotToVolume(b, opt, lvPath, ok) ==
    LET snapSize == opt.snapshotSize
        count == DivPow2(ShiftLeft(snapSize, sizeShiftBit), blocksize)
        snapPath == LvPathOf(opt.pool, snapshotPrefix, opt.snapshotId)
    IN Returns([b EXCEPT !.cmds = Append(@, [cmd |-> "dd", arg |-> lvPath, ok |-> ok,
                                           from |-> snapPath, count |-> count,
                                           bs |-> blocksize])],
               NilSpec, IF ok THEN "nil" ELSE "dd failed")

CopySnapshotToVolume ==
    /\ lvm.op = "copySnapshotToVolume"
    /\ lvm.cmds = <<>>
    /\ \E ok \in BOOLEAN :
          lvm' = Driver_copySnapshotToVolume(lvm, lvm.opt,
                     LvPathOf(lvm.opt.pool, volumePrefix, lvm.opt.id), ok)
    /\ UNCHANGED apiVars
    /\ UNCHANGED fc

\* CreateVolume has made the volume and is about to seed it from a local
\* snapshot of some size.
InitSeed ==
    /\ handler = [r \in Requests |-> IdleHandler]
    /\ errchan = [r \in Requests |-> NoChan]
    /\ brain = [r \in Requests |-> NoBrain]
    /\ db = [x \in Resources |-> "absent"]
    /\ fc = FcIdle
    /\ \E size \in SnapshotSizes, id \in Ids, sid \in Ids, pool \in Pools :
          lvm = [LvmIdle EXCEPT
                    !.lvs = {LvPathOf(pool, volumePrefix, id), LvPathOf(pool, snapshotPrefix, sid)},
                    !.op = "copySnapshotToVolume",
                    !.opt = [id |-> id, pool |-> pool, snapshotId |-> sid,
                             snapshotSize |-> size]]

NextSeed == CopySnapshotToVolume

SpecSeed == InitSeed /\ [][NextSeed]_vars

\* The driver under each configuration, for the calls that read it.
InitLvmConf ==
    /\ handler = [r \in Requests |-> IdleHandler]
    /\ errchan = [r \in Requests |-> NoChan]
    /\ brain = [r \in Requests |-> NoBrain]
    /\ db = [x \in Resources |-> "absent"]
    /\ fc = FcIdle
    /\ \E conf \in LVMConfigs : lvm = [LvmIdle EXCEPT !.conf = conf]

NextLvmConf ==
    \/ CallInitializeConnection
    \/ CallInitializeSnapshotConnection
    \/ CallListPools
    \/ TakeResult

SpecLvmConf == InitLvmConf /\ [][NextLvmConf]_vars

(***************************************************************************)
(* Claims about the LVM driver                                             *)
(***************************************************************************)

\* The commands of the last driver call that created a logical volume.
Created == {k \in 1..Len(lvm.cmds) : lvm.cmds[k].cmd = "lvcreate" /\ lvm.cmds[k].ok}

\* C1: whenever CreateVolume or CreateSnapshot returns an error after its
\* lvcreate succeeded, an lvremove of the logical volume that call created has
\* been issued.
C1_FailedCreateIsRolledBack ==
    (lvm.op \in {"CreateVolume", "CreateSnapshot"} /\ lvm.ret.err # "nil") =>
        \A k \in Created :
            \E m \in 1..Len(lvm.cmds) :
                /\ m > k
                /\ lvm.cmds[m].cmd = "lvremove"
                /\ lvm.cmds[m].arg = lvm.cmds[k].arg

\* Some logical volume of the backend is named volumePrefix + id.
VolumePresent(b, id) == \E p \in b.lvs : p[3] = <<volumePrefix, id>>

\* The commands of the last driver call with the given name.
Issued(cmd) == {k \in 1..Len(lvm.cmds) : lvm.cmds[k].cmd = cmd}

\* The same, of the call a step makes.
IssuedNext(cmd) == {k \in 1..Len(lvm'.cmds) : lvm'.cmds[k].cmd = cmd}

\* A step that is a call of the driver operation op.
IsCall(op) == lvm.op = "none" /\ lvm'.op = op

\* C11: DeleteVolume for a volume id whose logical volume is not in the
\* backend returns nil and issues no lvremove, whatever the metadata is.
C11_DeleteOfAbsentVolumeSucceeds ==
    [][(IsCall("DeleteVolume") /\ ~VolumePresent(lvm, lvm'.opt.id)) =>
          (lvm'.ret.err = "nil" /\ IssuedNext("lvremove") = {})]_vars

\* C11's case: DeleteVolume of an absent volume, called with an lvPath in its
\* metadata while the backend holds other logical volumes, has returned nil.
C11_Witness ==
    /\ lvm.op = "DeleteVolume"
    /\ ~VolumePresent(lvm, lvm.opt.id)
    /\ Issued("lvremove") = {}
    /\ "lvPath" \in DOMAIN lvm.opt.metadata
    /\ Issued("lvs") # {} /\ lvm.cmds[1].ok
    /\ lvm.ret.err = "nil"

\* C12: DeleteSnapshot called for a snapshot whose logical volume is already
\* absent from the backend returns success (every command other than the
\* lvremove doing what it is asked).
C12_DeleteSnapshotIdempotent ==
    [][(/\ IsCall("DeleteSnapshot")
        /\ "lvsPath" \in DOMAIN lvm'.opt.metadata
        /\ lvm'.opt.metadata["lvsPath"] \notin lvm.lvs
        /\ \A k \in 1..Len(lvm'.cmds) : lvm'.cmds[k].cmd # "lvremove" => lvm'.cmds[k].ok)
          => lvm'.ret.err = "nil"]_vars

\* C13: DeleteVolume of an existing volume that has snapshots returns the
\* conflict error and issues no lvremove, and the volume stays in the backend.
C13_DeleteWithSnapshotsIsConflict ==
    [][(/\ IsCall("DeleteVolume")
        /\ lvm'.opt.metadata = [lvPath |-> LvPathOf("vg0", volumePrefix, lvm'.opt.id)]
        /\ SnapshotsOf(lvm, lvm'.opt.metadata["lvPath"]) # {})
          => /\ lvm'.ret.err = "unable to delete due to existing snapshot for volume"
             /\ IssuedNext("lvremove") = {}
             /\ lvm'.opt.metadata["lvPath"] \in lvm'.lvs]_vars

\* C14: ExtendVolume on a volume that has snapshots issues lvresize only after
\* an lvchange -an of every snapshot of it that was active; and when the
\* listing of the snapshots or a deactivation fails it returns an error and
\* issues no lvresize.
C14_DeactivateBeforeResize ==
    [][(/\ IsCall("ExtendVolume")
        /\ "lvPath" \in DOMAIN lvm'.opt.metadata
        /\ SnapshotsOf(lvm, lvm'.opt.metadata["lvPath"]) # {})
          => /\ \A r \in IssuedNext("lvresize") :
                   \A sp \in SnapshotsOf(lvm, lvm'.opt.metadata["lvPath"]) \ lvm.inactive :
                       \E k \in IssuedNext("lvchange") :
                           k < r /\ lvm'.cmds[k].arg = sp /\ lvm'.cmds[k].ok
             /\ (\E k \in IssuedNext("lvdisplay") \cup IssuedNext("lvchange") :
                    ~lvm'.cmds[k].ok)
                   => (lvm'.ret.err # "nil" /\ IssuedNext("lvresize") = {})]_vars

\* The path of the snapshot the last CreateSnapshot call made.
CreatedSnapshotPath == SiblingPath(lvm.opt.metadata["lvPath"], <<snapshotPrefix, lvm.opt.id>>)

C16_UploadedCopyDeletedFirst ==
    (lvm.op = "DeleteSnapshot" /\ "bucket" \in DOMAIN lvm.opt.metadata) =>
        /\ \A r \in Issued("lvremove") :
              \E k \in Issued("Delete") : k < r /\ lvm.cmds[k].ok
        /\ lvm.ret.err = "nil" => \E k \in Issued("Delete") : lvm.cmds[k].ok
        /\ (\E k \in Issued("Delete") : ~lvm.cmds[k].ok) =>
              (lvm.ret.err # "nil" /\ Issued("lvremove") = {})

\* The commands that change the backend.
Mutating == {"lvresize", "lvchange", "lvcreate", "lvremove", "CreateExport"}

\* C18: without the key lvPath in the metadata, ExtendVolume, CreateSnapshot,
\* InitializeConnection and DeleteVolume of an existing volume return an error
\* and issue no command that changes the backend.
C18_MissingPathIsAnError ==
    [][(/\ \/ IsCall("ExtendVolume") \/ IsCall("CreateSnapshot")
           \/ IsCall("InitializeConnection")
           \/ IsCall("DeleteVolume") /\ VolumePresent(lvm, lvm'.opt.id)
        /\ "lvPath" \notin DOMAIN lvm'.opt.metadata)
          => /\ lvm'.ret.err # "nil"
             /\ \A k \in 1..Len(lvm'.cmds) : lvm'.cmds[k].cmd \notin Mutating]_vars

\* C19: ExtendVolume returns on success exactly the metadata map it was
\* given; CreateVolume returns as lvPath the path of the logical volume it
\* created, and DeleteVolume issues lvremove for the lvPath it is given: the
\* path goes unchanged from create through extend to delete.
C19_MetadataRoundTrip ==
    /\ (lvm.op = "ExtendVolume" /\ lvm.ret.err = "nil") =>
          lvm.ret.val.metadata = lvm.opt.metadata
    /\ (lvm.op = "CreateVolume" /\ lvm.ret.err = "nil") =>
          /\ DOMAIN lvm.ret.val.metadata = {"lvPath"}
          /\ \E k \in Issued("lvcreate") :
                lvm.cmds[k].ok /\ lvm.cmds[k].arg = lvm.ret.val.metadata["lvPath"]
    /\ lvm.op = "DeleteVolume" =>
          \A k \in Issued("lvremove") : lvm.cmds[k].arg = lvm.opt.metadata["lvPath"]

\* C19's case: ExtendVolume succeeded on the lvPath CreateVolume gives volume 1,
\* which is in the backend, and returned that map.
C19_Witness ==
    /\ lvm.op = "ExtendVolume"
    /\ lvm.ret.err = "nil"
    /\ lvm.opt.metadata = [lvPath |-> LvPathOf("vg0", volumePrefix, 1)]
    /\ lvm.ret.val.metadata = [lvPath |-> LvPathOf("vg0", volumePrefix, 1)]
    /\ LvPathOf("vg0", volumePrefix, 1) \in lvm.lvs
    /\ Issued("lvresize") # {}

\* The CreateExport calls of the last driver call.
Exported == {k \in 1..Len(lvm.cmds) : lvm.cmds[k].cmd = "CreateExport"}

\* C23: InitializeConnection and InitializeSnapshotConnection pass "ALL" as
\* the initiator when the caller's initiator is empty and "ALL" as the host IP
\* when the caller's IP is empty, the caller's values otherwise; they pass a
\* pair of CHAP secrets to the export exactly when the configuration enables
\* CHAP authentication, and no CHAP data otherwise.
C23_ExportDefaultsAndChap ==
    lvm.op \in {"InitializeConnection", "InitializeSnapshotConnection"} =>
        \A k \in Exported :
            LET e == lvm.cmds[k]
                h == lvm.opt.hostInfo
            IN /\ e.initiator = IF h.initiator = "" THEN "ALL" ELSE h.initiator
               /\ e.hostIP = IF h.ip = "" THEN "ALL" ELSE h.ip
               /\ lvm.conf.enableChapAuth => Len(e.chapAuth) = 2
               /\ ~lvm.conf.enableChapAuth => e.chapAuth = <<>>

\* C23's case: with CHAP authentication enabled, InitializeSnapshotConnection
\* has exported for a caller that gave an initiator and no IP.
C23_Witness ==
    /\ lvm.op = "InitializeSnapshotConnection"
    /\ lvm.conf.enableChapAuth
    /\ lvm.opt.hostInfo.initiator # ""
    /\ lvm.opt.hostInfo.ip = ""
    /\ \E k \in Exported : lvm.cmds[k].ok /\ Len(lvm.cmds[k].chapAuth) = 2

\* The ListPools call that has returned its pools.
ListedPools == lvm.op = "ListPools" /\ lvm.ret.err = "nil"

\* The lines of the vgs output that name a volume group.
DiscoveredLines == {k \in 1..Len(lvm.opt.output) : Len(lvm.opt.output[k]) = 4}

\* C24: ListPools returns a pool for a discovered volume group if and only if
\* the volume group's name is declared in the pool map of the configuration;
\* a discovered volume group that is not declared never appears in the result.
C24_PoolsAreTheDeclaredVolumeGroups ==
    ListedPools =>
        LET out == lvm.opt.output
            pols == lvm.ret.val
            declared == {k \in DiscoveredLines : out[k][1] \in DOMAIN lvm.conf.pool}
        IN /\ \A k \in DiscoveredLines :
                  (k \in declared) <=>
                      \E j \in 1..Len(pols) :
                          pols[j].name = out[k][1] /\ pols[j].uuid = out[k][4]
           /\ \A j \in 1..Len(pols) :
                  \E k \in declared : pols[j].name = out[k][1] /\ pols[j].uuid = out[k][4]
           /\ Len(pols) = Cardinality(declared)

\* C24's case: of two discovered volume groups, the declared one is returned
\* and the other is not.
C24_Witness ==
    /\ ListedPools
    /\ Cardinality(DiscoveredLines) = 2
    /\ Len(lvm.ret.val) = 1
    /\ \E k \in DiscoveredLines : lvm.opt.output[k][1] \notin DOMAIN lvm.conf.pool

\* C25: two ListPools calls that discover a volume group with the same UUID
\* return the same pool id for it, whatever the order of discovery and the
\* capacities: the id is made of the fixed namespace and the UUID only.
C25_PoolIdIsDeterministic ==
    ListedPools =>
        \A j \in 1..Len(lvm.ret.val) :
            LET pol == lvm.ret.val[j]
            IN /\ pol.id = NewV5(NamespaceOID, pol.uuid)
               /\ \A p \in lvm.poolIds : p[1] = pol.uuid => p[2] = pol.id
               /\ \A i \in 1..Len(lvm.ret.val) :
                      lvm.ret.val[i].uuid = pol.uuid => lvm.ret.val[i].id = pol.id

\* C25's case: a volume group whose pool an earlier ListPools call returned
\* is discovered again, on the second line of the listing and under the
\* other name, and its pool is returned.
C25_Witness ==
    /\ ListedPools
    /\ Len(lvm.opt.output) = 2
    /\ Len(lvm.opt.output[1]) = 4
    /\ Len(lvm.opt.output[2]) = 4
    /\ lvm.opt.output[1][4] # lvm.opt.output[2][4]
    /\ \E p \in lvm.poolIds, j \in 1..Len(lvm.ret.val) :
           /\ p[1] = lvm.opt.output[2][4]
           /\ lvm.ret.val[j].uuid = p[1]
           /\ lvm.ret.val[j].name = lvm.opt.output[2][1]

VolumeGroupCalls == {"CreateVolumeGroup", "UpdateVolumeGroup", "DeleteVolumeGroup"}

\* C26: CreateVolumeGroup, UpdateVolumeGroup and DeleteVolumeGroup return a
\* not-implemented error with nil results for every input, issue no backend
\* command and leave the backend as it was.
C26_VolumeGroupsNotImplemented ==
    [][\A op \in VolumeGroupCalls :
          IsCall(op) =>
              /\ lvm'.ret.err = "NotImplementError"
              /\ lvm'.ret.val = NilSpec
              /\ lvm'.cmds = <<>>
              /\ lvm'.lvs = lvm.lvs
              /\ lvm'.origin = lvm.origin
              /\ lvm'.inactive = lvm.inactive
              /\ lvm'.exports = lvm.exports]_vars

\* C26's case: DeleteVolumeGroup was called with a volume of the group in the
\* backend.
C26_Witness ==
    /\ lvm.op = "DeleteVolumeGroup"
    /\ \E v \in lvm.opt.volumes : VolumePresent(lvm, v)
    /\ lvm.ret.err = "NotImplementError"

\* The LV Status that the lvdisplay of the last driver call printed: the
\* words after the label.
ReportedStatus ==
    LET k == CHOOSE j \in Issued("lvdisplay") : lvm.cmds[j].ok
        line == CHOOSE l \in {lvm.cmds[k].out[x] : x \in 1..Len(lvm.cmds[k].out)} :
                    LineHasLabel(l, "Status")
    IN SubSeq(line, 3, Len(line))

\* C27: CreateVolume on success returns a volume whose id, name, size and
\* description are the request's, whose status is the LV Status that
\* lvdisplay reported, and whose metadata has the key lvPath naming the
\* created logical volume under /dev/<pool>/; no lvremove is issued.
C27_CreateVolumeResult ==
    (lvm.op = "CreateVolume" /\ lvm.ret.err = "nil") =>
        LET vol == lvm.ret.val
            opt == lvm.opt
        IN /\ vol # NilSpec
           /\ vol.id = opt.id
           /\ vol.name = opt.name
           /\ vol.size = opt.size
           /\ vol.description = opt.description
           /\ <<vol.status>> = ReportedStatus
           /\ "lvPath" \in DOMAIN vol.metadata
           /\ vol.metadata["lvPath"] = LvPathOf(opt.pool, volumePrefix, opt.id)
           /\ vol.metadata["lvPath"] \in lvm.lvs
           /\ Issued("lvremove") = {}

\* C28: the copy that seeds a volume from a snapshot has a block size of 4096
\* bytes and a block count of the snapshot's size in GiB times 2^30 divided
\* by 4096 (size x 262144 = size x 2^18), so that count x block size is the
\* whole size of the snapshot in bytes (size x 2^30); no bit of the shifted
\* size is lost.
C28_SeedCopiesWholeSnapshot ==
    \A k \in Issued("dd") :
        LET size == lvm.opt.snapshotSize
            dd == lvm.cmds[k]
        IN /\ dd.bs = 4096
           /\ dd.count = {b + 18 : b \in size}
           /\ {c + 12 : c \in dd.count} = {b + 30 : b \in size}
           /\ Cardinality(dd.count) = Cardinality(size)

\* C28's case: a snapshot of 2^32 + 1 GiB has been copied.
C28_Witness ==
    /\ lvm.op = "copySnapshotToVolume"
    /\ lvm.opt.snapshotSize = {0, 32}
    /\ \E k \in Issued("dd") : lvm.cmds[k].ok

\* C29: DeleteVolume never issues lvremove for a logical volume that has a
\* snapshot in the backend, also when the lvdisplay that asks for the
\* volume's attributes fails.
C29_NoRemoveOfVolumeWithSnapshot ==
    [][IsCall("DeleteVolume") =>
          \A k \in IssuedNext("lvremove") : SnapshotsOf(lvm, lvm'.cmds[k].arg) = {}]_vars

\* C30: DeleteVolume returns success only if the logical volume of the volume
\* is not in the backend when the call returns; a failure of the lvs listing
\* of the existence check does not make a successful delete of a volume that
\* is still there.
C30_SuccessMeansVolumeGone ==
    [][(IsCall("DeleteVolume") /\ lvm'.ret.err = "nil") =>
          ~VolumePresent(lvm', lvm'.opt.id)]_vars

\* C31: in CreateSnapshot with a bucket, after a successful attach the snapshot
\* is detached and its export terminated before any lvremove of the snapshot
\* is issued, and lvremove is issued at most once in the call.
C31_DetachBeforeRemoveOnce ==
    (/\ lvm.op = "CreateSnapshot"
     /\ \E a \in Issued("Attach") : lvm.cmds[a].ok)
        => /\ \A k \in Issued("lvremove") :
                  /\ \E d \in Issued("Detach") : d < k
                  /\ \E u \in Issued("RemoveExport") : u < k
           /\ Cardinality(Issued("lvremove")) <= 1

\* C32: when the connector attach fails after InitializeSnapshotConnection
\* created the export of the snapshot, that export has been removed when
\* AttachSnapshot returns its error.
C32_FailedAttachRemovesExport ==
    (/\ lvm.op = "CreateSnapshot"
     /\ \E e \in Issued("CreateExport") :
            lvm.cmds[e].ok /\ lvm.cmds[e].arg = lvm.opt.id
     /\ \E a \in Issued("Attach") : ~lvm.cmds[a].ok)
        => lvm.opt.id \notin lvm.exports

\* C33: an ExtendVolume that returns an error leaves the backend as it was:
\* no lvresize took effect and no snapshot that was active before the call is
\* inactive after it.
C33_FailedExtendLeavesBackend ==
    [][(IsCall("ExtendVolume") /\ lvm'.ret.err # "nil") =>
          /\ \A k \in IssuedNext("lvresize") : ~lvm'.cmds[k].ok
          /\ lvm'.inactive = lvm.inactive
          /\ lvm'.lvs = lvm.lvs]_vars

\* The last command of the call is an lvremove that failed: in CreateVolume
\* and CreateSnapshot that is the deferred rollback.
RollbackFailed ==
    /\ lvm.op \in {"CreateVolume", "CreateSnapshot"}
    /\ lvm.cmds # <<>>
    /\ lvm.cmds[Len(lvm.cmds)].cmd = "lvremove"
    /\ ~lvm.cmds[Len(lvm.cmds)].ok

\* The error that made the call roll back: that of the first step of the body
\* that failed, or of the metadata key the body did not find.
RollbackCause ==
    LET failed == {k \in 1..Len(lvm.cmds) :
                      /\ ~lvm.cmds[k].ok
                      /\ lvm.cmds[k].cmd \in {"dd", "Restore", "CreateExport", "Attach", "Backup"}}
        first == CHOOSE k \in failed : \A m \in failed : k <= m
    IN IF failed # {}
       THEN CASE lvm.cmds[first].cmd = "dd" -> "dd failed"
              [] lvm.cmds[first].cmd = "Restore" -> "download failed"
              [] lvm.cmds[first].cmd = "CreateExport" -> "CreateExport failed"
              [] lvm.cmds[first].cmd = "Attach" -> "Attach failed"
              [] lvm.cmds[first].cmd = "Backup" -> "upload failed"
       ELSE IF "backupId" \notin DOMAIN lvm.opt.metadata
       THEN "can't find backupId in metadata"
       ELSE "can't find bucket name in metadata"

\* C34: when the rollback lvremove of CreateVolume or CreateSnapshot fails, the
\* call still returns a nil resource and the error that caused the rollback.
C34_RollbackFailureKeepsError ==
    RollbackFailed => lvm.ret = [val |-> NilSpec, err |-> RollbackCause]

\* C34's cases: a CreateVolume whose seeding failed and a CreateSnapshot whose
\* attach failed, each with a rollback lvremove that failed and left the
\* logical volume in the backend.
C34_Witness ==
    /\ RollbackFailed
    /\ lvm.cmds[Len(lvm.cmds)].arg \in lvm.lvs
    /\ lvm.ret.err \in {"dd failed", "Attach failed"}

\* What C35 says of the checks, rescans and sleeps of volPathDiscovery, at
\* every point of the call and in its result.
DiscoveryBounded ==
    fc.pc \in {"discover", "wwn", "done"} =>
        /\ Cardinality(Checks) <= tries * Len(fc.volPaths)
        /\ Cardinality(Rescans) = Cardinality(Checks \ Hits)
        /\ \A k \in Checks \ Hits : k + 1 \in Rescans
        /\ \A k \in Hits : k = Len(fc.log)
        /\ DiscoveryReturned =>
              /\ (fc.devicePath = EmptyString /\ fc.deviceName = EmptyString) <=> Hits = {}
              /\ Hits = {} => Cardinality(Checks) = tries * Len(fc.volPaths)

\* C35: volPathDiscovery always returns; it makes at most tries * |volPaths|
\* existence checks, returns ("", "") exactly when every check found its path
\* absent, rescans exactly once per check that found its path absent, and
\* checks, rescans and sleeps no more after the first match.
C35_DiscoveryTerminatesWithinBound ==
    /\ []DiscoveryBounded
    /\ (fc.pc = "discover") ~> (fc.pc = "wwn")

\* C35's cases: a discovery that returned a match in a later pass, after a
\* rescan and a sleep.
C35_Witness ==
    /\ DiscoveryReturned
    /\ Hits # {}
    /\ Rescans # {}
    /\ \E k \in 1..Len(fc.log) : fc.log[k].ev = "sleep"

\* A discovery that returned ("", "") after every check found its path absent.
C35_WitnessExhausted ==
    /\ DiscoveryReturned
    /\ Hits = {}
    /\ Cardinality(Checks) = tries * MaxPaths

\* The flush and removal requests of the last disconnectVolume call that
\* failed, and the requests made for one device.
DetachFailures == {k \in Detach("flush") \cup Detach("remove") : ~fc.log[k].ok}

RequestsFor(ev, device) == {k \in Detach(ev) : fc.log[k].device = device}

\* C36: removeDevices stops at the first flush or removal error and returns
\* it: a device whose flush failed gets no removal request, devices later in
\* the list are neither flushed nor removed, and without an error every device
\* whose delete entry exists has been flushed and removed exactly once.
C36_RemoveStopsAtFirstError ==
    (fc.pc = "disconnected" /\ fc.ret.err # "getFChbas failed") =>
        /\ \A k \in DetachFailures :
              /\ k = Len(fc.log)
              /\ fc.ret.err = IF fc.log[k].ev = "flush" THEN "flush failed"
                               ELSE "remove failed"
              /\ fc.log[k].ev = "flush" => RequestsFor("remove", fc.log[k].device) = {}
              /\ \A r \in Detach("resolve"), l \in Detach("resolve") :
                    (fc.log[r].device = fc.log[k].device /\ fc.log[r].sysfs /\ r < l) =>
                        /\ RequestsFor("flush", fc.log[l].device) = {}
                        /\ RequestsFor("remove", fc.log[l].device) = {}
        /\ fc.ret.err = "nil" <=> DetachFailures = {}
        /\ fc.ret.err = "nil" =>
              \A r \in Detach("resolve") :
                  fc.log[r].sysfs =>
                      /\ Cardinality(RequestsFor("flush", fc.log[r].device)) = 1
                      /\ Cardinality(RequestsFor("remove", fc.log[r].device)) = 1

\* C36's case: of two devices with a delete entry the flush of the first
\* failed; the call returned that error with the one flush request made.
C36_Witness ==
    /\ fc.pc = "disconnected"
    /\ fc.ret.err = "flush failed"
    /\ Cardinality({r \in Detach("resolve") : fc.log[r].sysfs}) = 2
    /\ Cardinality(Detach("flush")) = 1
    /\ Detach("remove") = {}

\* The send of the background execution, when it is due, finds the channel
\* open and its one place free; no send has hit a closed channel.
SendGoesThrough ==
    \A r \in Requests :
        /\ brain[r].pc # "panicked"
        /\ brain[r].pc = "post" => (errchan[r].state = "open" /\ Len(errchan[r].buf) = 0)

\* C37: in every interleaving of a handler and the background execution it
\* started, the one send on the capacity-1 channel neither blocks nor hits a
\* closed channel, the receive of the handler completes, and the handler
\* returns.
C37_SendNeverBlocksHandlerReturns ==
    /\ []SendGoesThrough
    /\ \A r \in Requests : At(r, "recv") ~> (handler[r].rcvd # "none")
    /\ \A r \in Requests : At(r, "recv") ~> (handler[r].pc = "idle")

\* C37's case: the background execution sent before the handler got to its
\* receive (the value waits in the buffer), with another handler under way.
C37_Witness ==
    \E r \in Requests :
        /\ handler[r].pc = "defer"
        /\ brain[r].pc = "done"
        /\ Len(errchan[r].buf) = 1
        /\ \E q \in Requests \ {r} : handler[q].pc # "idle"

====
